---- MODULE Spec2Model ----
(***************************************************************************)
(* A model of codeagent-wrapper: the parallel task scheduler, the per-task *)
(* process runner, the streaming-JSON normalizer and the log manager.      *)
(*                                                                         *)
(* Each subsystem has its own specification over its own variables:        *)
(*   Spec      the scheduler (runParallelMode, topologicalSort,            *)
(*             executeConcurrent)                                          *)
(*   FairSpec  the scheduler with the fairness of the Go runtime           *)
(*   DanglingSpec  the scheduler over batches with unknown dependency IDs  *)
(*   RunSpec / FairRunSpec   one process runner with its deadline, the     *)
(*             stdout of its child and its TaskResult                      *)
(*   LogSpec   cleanupOldLogs over a directory of candidate files          *)
(*   ParseSpec ParseJSONStreamInternal over a stream that mixes dialects   *)
(*   ClaudeSpec, GeminiSpec, OpencodeSpec   the same over the events of    *)
(*             one dialect                                                 *)
(* The variables of the other subsystems stay at their idle values.        *)
(***************************************************************************)
EXTENDS Integers, Sequences, FiniteSets, TLC

VARIABLES
    \* ---- scheduler ----
    deps,          \* deps[i]: the dependency IDs of the i-th declared task
    entry,         \* "cli" (runParallelMode) or "direct" (executeConcurrentWithContext)
    pc,            \* "start", "exec", "collect", "exit"
    sortErr,       \* the error of topologicalSort: [kind, ids]
    layers,        \* the layer plan: a sequence of sequences of task IDs
    cur,           \* index of the layer being executed
    st,            \* st[t]: the state of task t's runner
    res,           \* res[t]: the TaskResult of task t, or NoResult
    maxWorkers,    \* the worker cap of this batch
    ctxCancelled,  \* the batch's parent context is done
    results,       \* the value returned by executeConcurrent
    exitCode,      \* the exit code of runParallelMode
    launched,      \* the tasks for which a child process was started
    \* ---- process runner ----
    rpc,           \* "idle", "waiting", "terminating", "killed", "returned"
    child,         \* "none", "alive", "exited", "reaped"
    proc,          \* the process handle of the command: "nil" or "live"
    now,           \* seconds since the start of Run
    rtimeout,      \* the task's timeout in seconds; 0: none
    forceKillDelay,\* the force-kill countdown in seconds
    rctxDone,      \* the task's parent context is done
    termAt,        \* when the terminate signal was sent; -1: not sent
    killAt,        \* when the child was killed; -1: not killed
    sigs,          \* the signals sent to the child, in order
    finishAt,      \* when Run returned; -1: not yet
    childCode,     \* the exit code of the child; -1: not exited, or killed
    stdout,        \* the lines the child wrote to its stdout
    taskResult,    \* the TaskResult that Run returns
    \* ---- log manager ----
    lpc,           \* "idle", "scan", "done"
    unvisited,     \* directory entries of tempDir not yet visited
    stats,         \* CleanupStats: scanned, deleted, kept, errors and the
                   \* lists deletedFiles and keptFiles
    cleanupErr,    \* the error cleanupOldLogs returns: "nil", "glob", "remove"
    removeErr,     \* the unlink failures joined into that error, by file
    calls,         \* how often the process check and the remove were called
    last,          \* the entry visited last, what was true of it and
                   \* what cleanup did with it
    \* ---- stream normalizer ----
    ppc,           \* "reading", "done"
    stream,        \* the lines read from the child's stdout so far
    totalEvents,   \* the count of non-blank lines
    warnings,      \* the count of calls of warnFn
    readErr,       \* the stream ended with a read error, not with EOF
    threadID,      \* the session ID found so far
    codexMessage,
    claudeMessage,
    geminiBuffer,
    opencodeMessage,
    fired,         \* the callbacks the last line made the parser call
    message,       \* the message returned at the end of the stream
    \* ---- task-block parser ----
    bpc,           \* "reading", "done", "built"
    doc,           \* the blocks of the document read so far
    cfgTasks,      \* singleCfg.Tasks: the tasks appended so far
    seen,          \* the IDs of those tasks
    parallelConfig,\* the config ParseParallelConfig returns, or nil
    configErr,     \* the error it returns, "" for none
    lastArgs,      \* the argv built for a task of the config
    \* ---- single-task mode ----
    spc,           \* "start", "config", "task", "prompt", "running", "exit"
    rawArgv,       \* os.Args[1:]
    osEnv,         \* the CODEAGENT_ variables of the environment, by key
    confFile,      \* the values of the config file, by key
    singleCfg,     \* cfg: the Config of buildSingleConfig
    cfgErr,        \* its error, "" for none
    backendName,   \* the name of the selected backend
    isTerminal,    \* stdin is a terminal
    stdinData,     \* what stdin holds
    piped,         \* runSingleMode's piped
    promptOut,     \* what the read of the prompt file gave
    singleTask,    \* runSingleMode's taskText
    useStdin,      \* the task goes to the child through stdin
    singleTarget,  \* targetArg: the target argument handed to BuildArgs
    codexArgs,     \* the argv of the backend
    singleExit,    \* the exit code of the run; -1: still running
    \* one call of ReadAgentPromptFile
    fpc,           \* "start", "done"
    promptCall,    \* the path, the allow-outside flag and the file system
    promptRet,     \* what the call returned, read and logged
    \* one run of runWithLoggerAndCleanup
    kpc,           \* "start", "fn", "deferred", "closed", "done"
    logFile,       \* "absent", "present", "removed"
    loggerPtr,     \* the active logger: "nil" or "logger"
    logged,        \* the log calls made so far: their levels, in order
    errorEntries,  \* the logger's recent-error cache
    runExit,       \* the exit code of the run; -1: still running
    stderrOut,     \* what the wrapper wrote to stderr
    extractCall,   \* the last call of ExtractRecentErrors: receiver and n
    extractRet,    \* what that call returned
    \* goroutines that log through one Logger
    logCh,         \* the logger's channel: the entries not yet written
    writerBuf,     \* the lines in the worker's buffered writer
    fileLines,     \* the lines of the log file
    sentCount,     \* per goroutine, the number of messages it logged
    flushPc,       \* Logger.Flush: "idle", "waiting", "requested", "returned"
    beforeFlush,   \* the messages logged before the current Flush was called
    \* one run of the /do stop hook
    hpc,           \* "start", "done"
    hookIn,        \* the state file, the stdin payload and the pipes' outcomes
    hookOut,       \* what the hook printed and its exit status
    \* goroutines that resolve agent presets
    modelsConfigOnce,    \* the sync.Once: its done flag and its mutex
    modelsConfigCached,  \* the cached config: "nil" or what was loaded
    modelsFile,          \* the version of models.json on disk
    resolverPc,          \* per goroutine: "idle", "do", "slow", "locked", "after"
    callsMade,           \* per goroutine, the calls of modelsConfig it began
    seenConfigs,         \* the configs callers got since the last reset
    loadCount,           \* the calls of loadModelsConfig so far
    resetCount,          \* the calls of ResetModelsConfigCacheForTest so far
    \* a tailBuffer and the writes to it
    tailLimit,     \* tailBuffer.limit
    tailData,      \* tailBuffer.data
    tailWritten,   \* all the bytes written so far, in order
    tailRet,       \* the last Write: the length of p and what it returned
    \* goroutines that use the active-logger handle
    activePtr,     \* loggerPtr: 0 for nil, or the logger that is installed
    installed,     \* the number of loggers installed so far
    closeCalls,    \* per logger, the calls of Close made through closeLogger
    logCalls,      \* per logger, the messages logged through the helpers
    handlePc,      \* per goroutine: what it is in, and the logger it holds
    opsDone,       \* per goroutine, the calls it has begun
    lastPtrOp,     \* the last write of the pointer: "none", "store", "swap"
    lastRet        \* what the last finished call did: operation and outcome

schedVars == <<deps, entry, pc, sortErr, layers, cur, st, res, maxWorkers,
               ctxCancelled, results, exitCode, launched>>

outVars == <<childCode, stdout, taskResult>>

runVars == <<rpc, child, proc, now, rtimeout, forceKillDelay, rctxDone, termAt,
             killAt, sigs, finishAt, outVars>>

logVars == <<lpc, unvisited, stats, cleanupErr, removeErr, calls, last>>

parseVars == <<ppc, stream, totalEvents, warnings, readErr, threadID, codexMessage,
               claudeMessage, geminiBuffer, opencodeMessage, fired, message>>

blockVars == <<bpc, doc, cfgTasks, seen, parallelConfig, configErr, lastArgs>>

singleVars == <<spc, rawArgv, osEnv, confFile, singleCfg, cfgErr, backendName, isTerminal,
                stdinData, piped, promptOut, singleTask, useStdin, singleTarget, codexArgs,
                singleExit>>

promptVars == <<fpc, promptCall, promptRet>>

lifeVars == <<kpc, logFile, loggerPtr, logged, errorEntries, runExit, stderrOut,
              extractCall, extractRet>>

writerVars == <<logCh, writerBuf, fileLines, sentCount, flushPc, beforeFlush>>

hookVars == <<hpc, hookIn, hookOut>>

modelsVars == <<modelsConfigOnce, modelsConfigCached, modelsFile, resolverPc, callsMade,
                seenConfigs, loadCount, resetCount>>

tailVars == <<tailLimit, tailData, tailWritten, tailRet>>

activeVars == <<activePtr, installed, closeCalls, logCalls, handlePc, opsDone, lastPtrOp,
                lastRet>>

laterVars == <<lifeVars, writerVars, hookVars, modelsVars, tailVars, activeVars>>

firstVars == <<schedVars, runVars, logVars, parseVars, blockVars, singleVars, promptVars>>

nonLifeVars ==
    <<firstVars, writerVars, hookVars, modelsVars, tailVars, activeVars>>

nonWriterVars ==
    <<firstVars, lifeVars, hookVars, modelsVars, tailVars, activeVars>>

nonHookVars ==
    <<firstVars, lifeVars, writerVars, modelsVars, tailVars, activeVars>>

nonModelsVars ==
    <<firstVars, lifeVars, writerVars, hookVars, tailVars, activeVars>>

nonTailVars ==
    <<firstVars, lifeVars, writerVars, hookVars, modelsVars, activeVars>>

nonActiveVars ==
    <<firstVars, lifeVars, writerVars, hookVars, modelsVars, tailVars>>

nonSchedVars == <<runVars, logVars, parseVars, blockVars, singleVars, promptVars,
                 laterVars>>

nonRunVars == <<schedVars, logVars, parseVars, blockVars, singleVars, promptVars,
                 laterVars>>

nonLogVars == <<schedVars, runVars, parseVars, blockVars, singleVars, promptVars,
                 laterVars>>

nonParseVars == <<schedVars, runVars, logVars, blockVars, singleVars, promptVars,
                 laterVars>>

nonBlockVars == <<schedVars, runVars, logVars, parseVars, singleVars, promptVars,
                 laterVars>>

nonSingleVars == <<schedVars, runVars, logVars, parseVars, blockVars, promptVars,
                 laterVars>>

nonPromptVars == <<schedVars, runVars, logVars, parseVars, blockVars, singleVars,
                 laterVars>>

vars == <<firstVars, laterVars>>

(***************************************************************************)
(* Bounds of the model.                                                    *)
(***************************************************************************)
MaxTasks == 3
MaxDeps == 2
MaxWorkers == 2
MaxExit == 2
MaxTimeout == 2
MaxGrace == 2
MaxFiles == 2
MaxPid == 2
MaxTime == 4
MaxLines == 3
MaxBlocks == 3

\* The clock runs past every deadline and countdown of the model.
MaxClock == MaxTimeout + MaxGrace + 2

\* const maxParallelWorkersLimit = 100
maxParallelWorkersLimit == 100

\* An ID that no task of the batch carries (a dangling dependency).
GhostID == MaxTasks + 1

TaskIDs(d) == 1 .. Len(d)

NoResult == [exit |-> -1, cause |-> "none"]

(***************************************************************************)
(* Sequences and sets.                                                     *)
(***************************************************************************)
Min(S) == CHOOSE x \in S : \A y \in S : x <= y

RECURSIVE SortedSeq(_)
SortedSeq(S) == IF S = {} THEN <<>>
                ELSE <<Min(S)>> \o SortedSeq(S \ {Min(S)})

Range(s) == {s[i] : i \in DOMAIN s}

RECURSIVE Flatten(_)
Flatten(ls) == IF ls = <<>> THEN <<>> ELSE Head(ls) \o Flatten(Tail(ls))

(***************************************************************************)
(* topologicalSort: the layering of section 4.5 steps 1 and 2. An edge     *)
(* whose source is no known ID is rejected; layer 0 holds the tasks with   *)
(* no dependency, layer k+1 the tasks whose dependencies lie wholly in     *)
(* layers 0..k; a non-empty remaining set that cannot advance is a cycle   *)
(* error naming the tasks that remain. Tasks keep their declared order     *)
(* inside a layer.                                                         *)
(***************************************************************************)
DanglingTasks(d) == {t \in TaskIDs(d) : ~(d[t] \subseteq TaskIDs(d))}

\* A task counted ready as soon as one of its dependencies is placed.
ReadyTasksAnyDep(d, placed, remaining) ==
    {t \in remaining : d[t] = {} \/ d[t] \cap placed # {}}

ReadyTasks(d, placed, remaining) == {t \in remaining : d[t] \subseteq placed}

\* A layering that places one ready task at a time.
RECURSIVE LayeringOneByOne(_, _, _, _)
LayeringOneByOne(d, placed, remaining, acc) ==
    IF remaining = {} THEN [ok |-> TRUE, layers |-> acc, kind |-> "none", ids |-> {}]
    ELSE LET r == ReadyTasks(d, placed, remaining) IN
         IF r = {}
         THEN [ok |-> FALSE, layers |-> <<>>, kind |-> "cycle", ids |-> remaining]
         ELSE LayeringOneByOne(d, placed \cup {Min(r)}, remaining \ {Min(r)},
                               Append(acc, <<Min(r)>>))

RECURSIVE Layering(_, _, _, _)
Layering(d, placed, remaining, acc) ==
    IF remaining = {} THEN [ok |-> TRUE, layers |-> acc, kind |-> "none", ids |-> {}]
    ELSE LET r == ReadyTasks(d, placed, remaining) IN
         IF r = {}
         THEN [ok |-> FALSE, layers |-> <<>>, kind |-> "cycle", ids |-> remaining]
         ELSE Layering(d, placed \cup r, remaining \ r, Append(acc, SortedSeq(r)))

\* A sort that drops the edges whose source it does not know.
TopologicalSortDropsUnknown(d) ==
    Layering([t \in DOMAIN d |-> d[t] \cap TaskIDs(d)], {}, TaskIDs(d), <<>>)

TopologicalSort(d) ==
    IF DanglingTasks(d) # {}
    THEN [ok |-> FALSE, layers |-> <<>>, kind |-> "dangling", ids |-> DanglingTasks(d)]
    ELSE Layering(d, {}, TaskIDs(d), <<>>)

(***************************************************************************)
(* ResolveMaxParallelWorkers: the environment variable is blank, not a     *)
(* number, or a number.                                                    *)
(***************************************************************************)
EnvValues ==
    {[kind |-> "blank", val |-> 0], [kind |-> "invalid", val |-> 0]}
    \cup {[kind |-> "int", val |-> v] :
            v \in (-1 .. MaxWorkers) \cup {maxParallelWorkersLimit, maxParallelWorkersLimit + 1}}

\* The resolver without its check for negative values.
ResolveMaxParallelWorkersNegative(raw) ==
    IF raw.kind = "blank" THEN 0
    ELSE IF raw.kind = "invalid" THEN 0
    ELSE IF raw.val > maxParallelWorkersLimit THEN maxParallelWorkersLimit
    ELSE raw.val

ResolveMaxParallelWorkers(raw) ==
    IF raw.kind = "blank" THEN 0
    ELSE IF raw.kind = "invalid" \/ raw.val < 0 THEN 0
    ELSE IF raw.val > maxParallelWorkersLimit THEN maxParallelWorkersLimit
    ELSE raw.val

(***************************************************************************)
(* The scheduler's state.                                                  *)
(***************************************************************************)
\* The dependency lists of a batch whose references all resolve.
DepSets(n) == {S \in SUBSET (1 .. n) : Cardinality(S) <= MaxDeps}

InFlightStates == {"running", "term_cancel", "term_timeout"}

InFlight == {t \in DOMAIN st : st[t] \in InFlightStates}

Failed(r) == r.exit # 0

SchedIdle ==
    /\ deps = <<>>
    /\ entry = "none"
    /\ pc = "idle"
    /\ sortErr = [kind |-> "none", ids |-> {}]
    /\ layers = <<>>
    /\ cur = 0
    /\ st = <<>>
    /\ res = <<>>
    /\ maxWorkers = 0
    /\ ctxCancelled = FALSE
    /\ results = <<>>
    /\ exitCode = -1
    /\ launched = {}

\* The dependency lists of a batch in which a task may name an ID that no
\* task carries: the block parser appends every ID it reads.
DepSetsDangling(n) ==
    {S \in SUBSET ((1 .. n) \cup {GhostID}) : Cardinality(S) <= MaxDeps}

\* A batch of the block parser, dangling references included.
DanglingInit ==
    /\ \E n \in 1 .. MaxTasks - 1 : deps \in [1 .. n -> DepSetsDangling(n)]
    /\ entry \in {"cli", "direct"}
    /\ pc = "start"
    /\ sortErr = [kind |-> "none", ids |-> {}]
    /\ layers = <<>>
    /\ cur = 0
    /\ st = [t \in DOMAIN deps |-> "pending"]
    /\ res = [t \in DOMAIN deps |-> NoResult]
    /\ maxWorkers = 0
    /\ ctxCancelled = FALSE
    /\ results = <<>>
    /\ exitCode = -1
    /\ launched = {}

SchedInit ==
    /\ \E n \in 1 .. MaxTasks : deps \in [1 .. n -> DepSets(n)]
    /\ entry \in {"cli", "direct"}
    /\ pc = "start"
    /\ sortErr = [kind |-> "none", ids |-> {}]
    /\ layers = <<>>
    /\ cur = 0
    /\ st = [t \in DOMAIN deps |-> "pending"]
    /\ res = [t \in DOMAIN deps |-> NoResult]
    /\ maxWorkers = 0
    /\ ctxCancelled = FALSE
    /\ results = <<>>
    /\ exitCode = -1
    /\ launched = {}

(***************************************************************************)
(* runParallelMode, up to the call of executeConcurrent: a planning error  *)
(* ends the wrapper with exit code 1 before any task is started.           *)
(* executeConcurrent resolves the worker cap from the environment.         *)
(***************************************************************************)
\* runParallelMode going on after a planning error.
RunParallelModeIgnoresError ==
    /\ entry = "cli"
    /\ pc = "start"
    /\ LET s == TopologicalSort(deps) IN
       /\ sortErr' = [kind |-> s.kind, ids |-> s.ids]
       /\ \E raw \in EnvValues : maxWorkers' = ResolveMaxParallelWorkers(raw)
       /\ layers' = s.layers
       /\ pc' = "exec"
    /\ UNCHANGED nonSchedVars
    /\ UNCHANGED <<deps, entry, cur, st, res, ctxCancelled, results, exitCode, launched>>

RunParallelMode ==
    /\ entry = "cli"
    /\ pc = "start"
    /\ LET s == TopologicalSort(deps) IN
       IF ~s.ok
       THEN /\ sortErr' = [kind |-> s.kind, ids |-> s.ids]
            /\ exitCode' = 1
            /\ pc' = "exit"
            /\ UNCHANGED <<layers, maxWorkers>>
       ELSE /\ \E raw \in EnvValues : maxWorkers' = ResolveMaxParallelWorkers(raw)
            /\ layers' = s.layers
            /\ pc' = "exec"
            /\ UNCHANGED <<sortErr, exitCode>>
    /\ UNCHANGED nonSchedVars
    /\ UNCHANGED <<deps, entry, cur, st, res, ctxCancelled, results, launched>>

(***************************************************************************)
(* executeConcurrentWithContext called with a context of the caller's and  *)
(* an explicit worker cap.                                                 *)
(***************************************************************************)
ExecuteWithContext ==
    /\ entry = "direct"
    /\ pc = "start"
    /\ LET s == TopologicalSort(deps) IN
       IF ~s.ok
       THEN /\ sortErr' = [kind |-> s.kind, ids |-> s.ids]
            /\ pc' = "exit"
            /\ UNCHANGED <<layers, maxWorkers>>
       ELSE /\ maxWorkers' \in 0 .. MaxWorkers
            /\ layers' = s.layers
            /\ pc' = "exec"
            /\ UNCHANGED sortErr
    /\ UNCHANGED nonSchedVars
    /\ UNCHANGED <<deps, entry, cur, st, res, ctxCancelled, results, exitCode, launched>>

(***************************************************************************)
(* executeConcurrent: the layer loop. A layer starts when every task of    *)
(* the layer before it is finalized. A task with a failed dependency is    *)
(* not started and gets a result of the wrapper's own; so does a task      *)
(* found with the context already done.                                    *)
(***************************************************************************)
\* A layer loop that does not wait for its runners.
LayerDoneNoBarrier(k) == TRUE

LayerDone(k) ==
    IF k = 0 THEN TRUE ELSE \A i \in DOMAIN layers[k] : st[layers[k][i]] = "finalized"

\* A layer loop that starts a task whatever became of its dependencies.
DependencyFailedNever(t) == FALSE

DependencyFailed(t) == \E u \in deps[t] : Failed(res[u])

StartLayer ==
    /\ pc = "exec"
    /\ cur < Len(layers)
    /\ LayerDone(cur)
    /\ cur' = cur + 1
    /\ LET L == Range(layers[cur + 1]) IN
       /\ st' = [t \in DOMAIN st |->
                   IF t \notin L THEN st[t]
                   ELSE IF DependencyFailed(t) \/ ctxCancelled THEN "finalized"
                   ELSE "waiting"]
       /\ res' = [t \in DOMAIN res |->
                   IF t \notin L THEN res[t]
                   ELSE IF DependencyFailed(t) THEN [exit |-> 1, cause |-> "skipped"]
                   ELSE IF ctxCancelled THEN [exit |-> 1, cause |-> "cancelled"]
                   ELSE res[t]]
    /\ UNCHANGED nonSchedVars
    /\ UNCHANGED <<deps, entry, pc, sortErr, layers, maxWorkers, ctxCancelled,
                   results, exitCode, launched>>

\* A runner takes a slot of the worker semaphore and launches its child.
SlotFree == maxWorkers = 0 \/ Cardinality(InFlight) < maxWorkers

AcquireSlot(t) ==
    /\ pc = "exec"
    /\ st[t] = "waiting"
    /\ SlotFree
    /\ st' = [st EXCEPT ![t] = "running"]
    /\ launched' = launched \cup {t}
    /\ UNCHANGED nonSchedVars
    /\ UNCHANGED <<deps, entry, pc, sortErr, layers, cur, res, maxWorkers,
                   ctxCancelled, results, exitCode>>

\* A runner that waits for a slot sees the context done and gives up.
GiveUp(t) ==
    /\ pc = "exec"
    /\ st[t] = "waiting"
    /\ ctxCancelled
    /\ st' = [st EXCEPT ![t] = "finalized"]
    /\ res' = [res EXCEPT ![t] = [exit |-> 1, cause |-> "cancelled"]]
    /\ UNCHANGED nonSchedVars
    /\ UNCHANGED <<deps, entry, pc, sortErr, layers, cur, maxWorkers,
                   ctxCancelled, results, exitCode, launched>>

\* The child exits by itself before the task's context is done; the runner
\* reaps it, builds the result and releases its slot. (Once the context is
\* done the runner's result records the context's cause: NoticeCancel and
\* Reaped.)
ChildExit(t, code) ==
    /\ pc = "exec"
    /\ st[t] = "running"
    /\ ~ctxCancelled
    /\ st' = [st EXCEPT ![t] = "finalized"]
    /\ res' = [res EXCEPT ![t] =
                 [exit |-> code, cause |-> IF code = 0 THEN "ok" ELSE "failed"]]
    /\ UNCHANGED nonSchedVars
    /\ UNCHANGED <<deps, entry, pc, sortErr, layers, cur, maxWorkers,
                   ctxCancelled, results, exitCode, launched>>

\* The runner sees the context done and sends the terminate signal.
NoticeCancel(t) ==
    /\ pc = "exec"
    /\ st[t] = "running"
    /\ ctxCancelled
    /\ st' = [st EXCEPT ![t] = "term_cancel"]
    /\ UNCHANGED nonSchedVars
    /\ UNCHANGED <<deps, entry, pc, sortErr, layers, cur, res, maxWorkers,
                   ctxCancelled, results, exitCode, launched>>

\* The task's own deadline expires first (its context is not yet done) and
\* the runner sends the terminate signal.
DeadlineExpire(t) ==
    /\ pc = "exec"
    /\ st[t] = "running"
    /\ ~ctxCancelled
    /\ st' = [st EXCEPT ![t] = "term_timeout"]
    /\ UNCHANGED nonSchedVars
    /\ UNCHANGED <<deps, entry, pc, sortErr, layers, cur, res, maxWorkers,
                   ctxCancelled, results, exitCode, launched>>

\* A runner that reports a terminated child as an ordinary failure.
ReapedLosesCause(t) ==
    /\ pc = "exec"
    /\ st[t] \in {"term_cancel", "term_timeout"}
    /\ st' = [st EXCEPT ![t] = "finalized"]
    /\ res' = [res EXCEPT ![t] = [exit |-> 1, cause |-> "failed"]]
    /\ UNCHANGED nonSchedVars
    /\ UNCHANGED <<deps, entry, pc, sortErr, layers, cur, maxWorkers,
                   ctxCancelled, results, exitCode, launched>>

\* The terminated (or killed) child is reaped; the result records the cause
\* with the wrapper's own exit code.
Reaped(t) ==
    /\ pc = "exec"
    /\ st[t] \in {"term_cancel", "term_timeout"}
    /\ st' = [st EXCEPT ![t] = "finalized"]
    /\ res' = [res EXCEPT ![t] =
                 [exit |-> 1,
                  cause |-> IF st[t] = "term_cancel" THEN "cancelled" ELSE "timeout"]]
    /\ UNCHANGED nonSchedVars
    /\ UNCHANGED <<deps, entry, pc, sortErr, layers, cur, maxWorkers,
                   ctxCancelled, results, exitCode, launched>>

\* The caller cancels the batch's parent context. runParallelMode passes
\* context.Background(), which is never done.
CancelContext ==
    /\ entry = "direct"
    /\ pc = "exec"
    /\ ~ctxCancelled
    /\ ctxCancelled' = TRUE
    /\ UNCHANGED nonSchedVars
    /\ UNCHANGED <<deps, entry, pc, sortErr, layers, cur, st, res, maxWorkers,
                   results, exitCode, launched>>

\* The aggregate: one TaskResult per task of the layer plan, layer by layer,
\* in the declared order inside a layer.
Aggregate(ls, r) ==
    [i \in 1 .. Len(Flatten(ls)) |->
        [id |-> Flatten(ls)[i], exit |-> r[Flatten(ls)[i]].exit,
         cause |-> r[Flatten(ls)[i]].cause]]

ExecuteReturn ==
    /\ pc = "exec"
    /\ cur = Len(layers)
    /\ LayerDone(cur)
    /\ results' = Aggregate(layers, res)
    /\ pc' = IF entry = "cli" THEN "collect" ELSE "exit"
    /\ UNCHANGED nonSchedVars
    /\ UNCHANGED <<deps, entry, sortErr, layers, cur, st, res, maxWorkers,
                   ctxCancelled, exitCode, launched>>

(***************************************************************************)
(* runParallelMode after executeConcurrent: the exit code is that of the   *)
(* last result whose exit code is not 0.                                   *)
(***************************************************************************)
RECURSIVE LastNonZero(_, _)
LastNonZero(rs, acc) ==
    IF rs = <<>> THEN acc
    ELSE LastNonZero(Tail(rs), IF Head(rs).exit # 0 THEN Head(rs).exit ELSE acc)

RunParallelModeFinish ==
    /\ entry = "cli"
    /\ pc = "collect"
    /\ exitCode' = LastNonZero(results, 0)
    /\ pc' = "exit"
    /\ UNCHANGED nonSchedVars
    /\ UNCHANGED <<deps, entry, sortErr, layers, cur, st, res, maxWorkers,
                   ctxCancelled, results, launched>>

RunnerStep ==
    \E t \in DOMAIN st : AcquireSlot(t) \/ GiveUp(t) \/ NoticeCancel(t) \/ Reaped(t)

SchedulerStep ==
    RunParallelMode \/ ExecuteWithContext \/ StartLayer \/ ExecuteReturn
        \/ RunParallelModeFinish

(***************************************************************************)
(* The log manager: cleanupOldLogs over the entries of tempDir. Times are  *)
(* counted in days; the cleanup runs at LogNow. An entry is                *)
(*   [prefix, tok, ext, mtime, symlink, resolved]:                         *)
(* its name is <prefix>.<ext> for tok = "nodash" and <prefix>-<tok>.<ext>  *)
(* (with or without a -suffix) otherwise.                                  *)
(***************************************************************************)
\* math.MaxInt32
MaxInt32 == 2147483647

\* The PID of the process that runs the cleanup.
SelfPid == 1

LogNow == MaxTime

\* The age, in days, beyond which a log is held to be stale (7 days),
\* scaled to the model's clock.
StaleAge == 1

\* The names of the model. The part between the prefix and the extension
\* is missing ("nodash"), empty, a word, or a number n.
Tok(kind, n) == [kind |-> kind, n |-> n]

NameTokens == {Tok("empty", 0), Tok("word", 0)} \cup {Tok("num", n) : n \in -1 .. MaxPid}

Names ==
    {[prefix |-> "unrelated", tok |-> Tok("word", 0), ext |-> "log"],
     [prefix |-> "codeagent-wrapper", tok |-> Tok("nodash", 0), ext |-> "log"],
     [prefix |-> "codeagent-wrapper", tok |-> Tok("word", 0), ext |-> "txt"]}
        \cup [prefix : {"codeagent-wrapper"}, tok : NameTokens, ext : {"log"}]

Entries ==
    {[prefix |-> n.prefix, tok |-> n.tok, ext |-> n.ext, mtime |-> m,
      symlink |-> l, resolved |-> r] :
        n \in Names, m \in 1 .. MaxTime, l \in BOOLEAN,
        r \in {"inside", "outside", "error"}}

\* globLogFiles(<tempDir>/codeagent-wrapper-*.log)
GlobMatch(f) ==
    f.prefix = "codeagent-wrapper" /\ f.tok.kind # "nodash" /\ f.ext = "log"

\* parsePIDFromLog: the number after the prefix, if it is a positive PID.
ParsePIDFromLog(f) ==
    IF f.tok.kind = "num" /\ f.tok.n > 0 /\ f.tok.n <= MaxInt32
    THEN [ok |-> TRUE, pid |-> f.tok.n]
    ELSE [ok |-> FALSE, pid |-> 0]

pidToInt32(pid) ==
    IF pid <= 0 \/ pid > MaxInt32 THEN [ok |-> FALSE, v |-> 0]
    ELSE [ok |-> TRUE, v |-> pid]

\* What process.PidExists can answer about a process that is alive or not.
PidExistsOutcomes(alive) ==
    {[exists |-> alive, err |-> "nil"], [exists |-> FALSE, err |-> "EPERM"]}
        \cup (IF alive THEN {}
              ELSE {[exists |-> FALSE, err |-> "ErrorProcessNotRunning"]})

\* What process.NewProcess and CreateTime can answer: the start time in
\* ms, or an error.
CreateTimeOutcomes(alive, start) ==
    {[ms |-> 0, err |-> "error"]}
        \cup (IF alive THEN {[ms |-> start, err |-> "nil"]} ELSE {})

\* A check that holds every process to be running.
isProcessRunningAlways(pid, out) == TRUE

isProcessRunning(pid, out) ==
    IF ~pidToInt32(pid).ok THEN FALSE
    ELSE IF out.err = "nil" THEN out.exists
    ELSE IF out.err = "ErrorProcessNotRunning" THEN FALSE
    ELSE TRUE

\* The zero time is 0.
getProcessStartTime(pid, out) ==
    IF ~pidToInt32(pid).ok THEN 0
    ELSE IF out.err # "nil" \/ out.ms <= 0 THEN 0
    ELSE out.ms

\* A stat that follows the link and describes its target.
fileStatFollowsLink(f, failed) ==
    IF failed \/ f.resolved = "error" THEN [err |-> TRUE, symlink |-> FALSE, mtime |-> 0]
    ELSE [err |-> FALSE, symlink |-> FALSE, mtime |-> f.mtime]

\* fileStatFn = os.Lstat: the entry itself, a link included.
fileStatFn(f, failed) ==
    IF failed THEN [err |-> TRUE, symlink |-> FALSE, mtime |-> 0]
    ELSE [err |-> FALSE, symlink |-> f.symlink, mtime |-> f.mtime]

\* evalSymlinksFn = filepath.EvalSymlinks: where the path really leads.
evalSymlinksFn(f) == f.resolved

\* isUnsafeFile: the reason not to unlink the entry, "" if there is none.
isUnsafeFile(f, failed) ==
    LET info == fileStatFn(f, failed) IN
    IF info.err THEN "stat failed"
    ELSE IF info.symlink THEN "refusing to delete symlink"
    ELSE IF evalSymlinksFn(f) = "error" THEN "path resolution failed"
    ELSE IF evalSymlinksFn(f) = "outside" THEN "file is outside tempDir"
    ELSE ""

\* isPIDReused: the log was last written before the process of that PID
\* started; with an unknown start time, a stale log counts as reused.
isPIDReused(f, failed, startTime) ==
    LET info == fileStatFn(f, failed) IN
    IF info.err THEN FALSE
    ELSE IF startTime = 0 THEN LogNow - info.mtime > StaleAge
    ELSE info.mtime < startTime

ZeroStats ==
    [scanned |-> 0, deleted |-> 0, kept |-> 0, errors |-> 0,
     deletedFiles |-> <<>>, keptFiles |-> <<>>]

NoCalls == [running |-> 0, remove |-> 0]

NoEntry ==
    [prefix |-> "", tok |-> Tok("none", 0), ext |-> "", mtime |-> 0, symlink |-> FALSE,
     resolved |-> ""]

\* What the system answered while an entry was processed.
NoAnswers ==
    [px |-> [exists |-> FALSE, err |-> "nil"], ct |-> [ms |-> 0, err |-> "nil"],
     statFails1 |-> FALSE, statFails2 |-> FALSE, rm |-> "ok"]

NoLast ==
    [f |-> NoEntry, alive |-> FALSE, start |-> 0, decision |-> "none",
     removeCalled |-> FALSE, reason |-> "", answers |-> NoAnswers]

LogIdle ==
    /\ lpc = "none"
    /\ unvisited = 0
    /\ stats = ZeroStats
    /\ cleanupErr = "nil"
    /\ removeErr = <<>>
    /\ calls = NoCalls
    /\ last = NoLast

LogInit ==
    /\ lpc = "idle"
    /\ unvisited = 0
    /\ stats = ZeroStats
    /\ cleanupErr = "nil"
    /\ removeErr = <<>>
    /\ calls = NoCalls
    /\ last = NoLast

\* A start that reports the glob failure and scans all the same.
CleanupStartKeepsScanning ==
    /\ lpc = "idle"
    /\ \/ /\ lpc' = "scan"
          /\ cleanupErr' = "glob"
          /\ unvisited' \in 1 .. MaxFiles
       \/ /\ lpc' = "scan"
          /\ unvisited' \in 0 .. MaxFiles
          /\ UNCHANGED cleanupErr
    /\ UNCHANGED <<stats, removeErr, calls, last>>
    /\ UNCHANGED nonLogVars

\* cleanupOldLogs globs tempDir; a glob failure ends it with the zero
\* summary.
CleanupStart ==
    /\ lpc = "idle"
    /\ \/ /\ lpc' = "done"
          /\ cleanupErr' = "glob"
          /\ UNCHANGED unvisited
       \/ /\ lpc' = "scan"
          /\ unvisited' \in 0 .. MaxFiles
          /\ UNCHANGED cleanupErr
    /\ UNCHANGED <<stats, removeErr, calls, last>>
    /\ UNCHANGED nonLogVars

\* The next entry of tempDir, and what is true of the process its name
\* points to: whether it runs and since when. The cleaning process itself
\* runs, and it has just started.
ReadEntry(f, alive, start) ==
    /\ lpc = "scan"
    /\ last.decision = "none"
    /\ unvisited > 0
    /\ ParsePIDFromLog(f).pid = SelfPid => (alive /\ start = LogNow)
    /\ alive => ParsePIDFromLog(f).ok
    /\ start = 0 <=> ~alive
    /\ unvisited' = unvisited - 1
    /\ last' = [f |-> f, alive |-> alive, start |-> start, decision |-> "read",
                removeCalled |-> FALSE, reason |-> "", answers |-> NoAnswers]
    /\ UNCHANGED <<lpc, stats, cleanupErr, removeErr, calls>>
    /\ UNCHANGED nonLogVars

\* What the loop body decides for entry f with the answers of the system:
\* px of PidExists, ct of CreateTime, the two stats failing or not, and rm
\* of the remove.
Decide(f, px, ct, statFails1, statFails2, rm) ==
    LET parsed == ParsePIDFromLog(f)
        running == isProcessRunning(parsed.pid, px)
        reused == isPIDReused(f, statFails2, getProcessStartTime(parsed.pid, ct))
        unsafe == isUnsafeFile(f, statFails1)
    IN  IF ~GlobMatch(f) THEN [decision |-> "unmatched", removeCalled |-> FALSE, reason |-> ""]
        ELSE IF ~parsed.ok
        THEN [decision |-> "kept", removeCalled |-> FALSE, reason |-> "invalid name"]
        ELSE IF running /\ ~reused
        THEN [decision |-> "kept", removeCalled |-> FALSE, reason |-> "running"]
        ELSE IF unsafe # "" THEN [decision |-> "kept", removeCalled |-> FALSE, reason |-> unsafe]
        ELSE IF rm = "ok" THEN [decision |-> "deleted", removeCalled |-> TRUE, reason |-> ""]
        ELSE [decision |-> "error", removeCalled |-> TRUE, reason |-> "remove failed"]

\* The name of an entry as the lists of the summary and the joined error
\* show it: all that is kept of it is whether it bears a PID.
ListedName(f) == IF ParsePIDFromLog(f).ok THEN "pid" ELSE "nopid"

\* A summary that counts a failed unlink as a kept file.
CountErrorsAsKept(st0, d, name) ==
    IF d.decision = "unmatched" THEN st0
    ELSE [scanned |-> st0.scanned + 1,
          deleted |-> st0.deleted + (IF d.decision = "deleted" THEN 1 ELSE 0),
          kept |-> st0.kept + (IF d.decision \in {"kept", "error"} THEN 1 ELSE 0),
          errors |-> st0.errors,
          deletedFiles |-> IF d.decision = "deleted" THEN Append(st0.deletedFiles, name)
                           ELSE st0.deletedFiles,
          keptFiles |-> IF d.decision \in {"kept", "error"} THEN Append(st0.keptFiles, name)
                        ELSE st0.keptFiles]

\* The summary after decision d for the file named name.
Count(st0, d, name) ==
    IF d.decision = "unmatched" THEN st0
    ELSE [scanned |-> st0.scanned + 1,
          deleted |-> st0.deleted + (IF d.decision = "deleted" THEN 1 ELSE 0),
          kept |-> st0.kept + (IF d.decision = "kept" THEN 1 ELSE 0),
          errors |-> st0.errors + (IF d.decision = "error" THEN 1 ELSE 0),
          deletedFiles |-> IF d.decision = "deleted" THEN Append(st0.deletedFiles, name)
                           ELSE st0.deletedFiles,
          keptFiles |-> IF d.decision = "kept" THEN Append(st0.keptFiles, name)
                        ELSE st0.keptFiles]

\* The answers fit the calls the loop body makes for entry f: the PID is
\* inspected when the name bears one, the file is looked at and the start
\* time asked for when the PID is held to be running, the file is checked
\* when it is not kept as running, and removed when it is safe. A call
\* that is not made has the answer of NoAnswers.
AnswersAsked(f, alive, start, px, ct, statFails1, statFails2, rm) ==
    LET parsed == ParsePIDFromLog(f)
        candidate == GlobMatch(f) /\ parsed.ok
        running == candidate /\ isProcessRunning(parsed.pid, px)
        reused == isPIDReused(f, statFails2, getProcessStartTime(parsed.pid, ct))
        checked == candidate /\ ~(running /\ ~reused)
    IN  /\ IF candidate THEN px \in PidExistsOutcomes(alive) ELSE px = NoAnswers.px
        /\ running \/ ~statFails2
        /\ IF running /\ ~statFails2 THEN ct \in CreateTimeOutcomes(alive, start)
           ELSE ct = NoAnswers.ct
        /\ checked \/ ~statFails1
        /\ (checked /\ isUnsafeFile(f, statFails1) = "") \/ rm = NoAnswers.rm

ProcessEntry(px, ct, statFails1, statFails2, rm) ==
    /\ lpc = "scan"
    /\ last.decision = "read"
    /\ AnswersAsked(last.f, last.alive, last.start, px, ct, statFails1, statFails2, rm)
    /\ LET d == Decide(last.f, px, ct, statFails1, statFails2, rm) IN
       /\ last' = [last EXCEPT !.decision = d.decision,
                               !.removeCalled = d.removeCalled,
                               !.reason = d.reason,
                               !.answers = [px |-> px, ct |-> ct,
                                            statFails1 |-> statFails1,
                                            statFails2 |-> statFails2, rm |-> rm]]
       /\ stats' = Count(stats, d, ListedName(last.f))
       /\ cleanupErr' = IF d.decision = "error" THEN "remove" ELSE cleanupErr
       /\ removeErr' = IF d.decision = "error" THEN Append(removeErr, ListedName(last.f))
                       ELSE removeErr
       /\ calls' = [running |-> calls.running
                                   + (IF GlobMatch(last.f) /\ ParsePIDFromLog(last.f).ok
                                      THEN 1 ELSE 0),
                    remove |-> calls.remove + (IF d.removeCalled THEN 1 ELSE 0)]
    /\ UNCHANGED <<lpc, unvisited>>
    /\ UNCHANGED nonLogVars

\* The loop goes on to the next entry.
NextEntry ==
    /\ lpc = "scan"
    /\ last.decision \notin {"none", "read"}
    /\ last' = NoLast
    /\ UNCHANGED <<lpc, unvisited, stats, cleanupErr, removeErr, calls>>
    /\ UNCHANGED nonLogVars

CleanupReturn ==
    /\ lpc = "scan"
    /\ last.decision = "none"
    /\ unvisited = 0
    /\ lpc' = "done"
    /\ UNCHANGED <<unvisited, stats, cleanupErr, removeErr, calls, last>>
    /\ UNCHANGED nonLogVars

SystemAnswers ==
    [exists : BOOLEAN, err : {"nil", "EPERM", "ErrorProcessNotRunning"}]

StartAnswers == [ms : 0 .. MaxTime, err : {"nil", "error"}]

LogNext ==
    \/ CleanupStart
    \/ /\ lpc = "scan" /\ last.decision = "none" /\ unvisited > 0
       /\ \E f \in Entries : \E alive \in BOOLEAN : \E start \in 0 .. MaxTime :
             ReadEntry(f, alive, start)
    \/ /\ lpc = "scan" /\ last.decision = "read"
       /\ \E px \in SystemAnswers : \E ct \in StartAnswers :
             \E statFails1 \in BOOLEAN : \E statFails2 \in BOOLEAN :
                \E rm \in {"ok", "error"} :
                   ProcessEntry(px, ct, statFails1, statFails2, rm)
    \/ NextEntry
    \/ CleanupReturn

(***************************************************************************)
(* The stream normalizer: ParseJSONStreamInternal. A string is a sequence  *)
(* of characters. A line of the stream is blank, overlong, not JSON, or a  *)
(* JSON event with the fields of UnifiedEvent.                             *)
(***************************************************************************)
\* A JSON value of item.text: a string, an array (of strings and others),
\* or anything else.
TextString(str) == [kind |-> "string", s |-> str, arr |-> <<>>]

TextArray(elems) == [kind |-> "array", s |-> <<>>, arr |-> elems]

TextOther == [kind |-> "other", s |-> <<>>, arr |-> <<>>]

\* An element of a JSON array: a string, or (isString FALSE) a number.
Elem(isString, str) == [isString |-> isString, s |-> str]

\* The string elements of an array, concatenated in order.
RECURSIVE NormalizeArray(_)
NormalizeArray(elems) ==
    IF elems = <<>> THEN <<>>
    ELSE (IF Head(elems).isString THEN Head(elems).s ELSE <<>>)
             \o NormalizeArray(Tail(elems))

\* A normalizer that knows strings only.
NormalizeTextStringsOnly(text) ==
    IF text.kind = "string" THEN text.s ELSE <<>>

NormalizeText(text) ==
    IF text.kind = "string" THEN text.s
    ELSE IF text.kind = "array" THEN NormalizeArray(text.arr)
    ELSE <<>>

\* The item field: absent, a JSON object with type and text, or a scalar.
NoItem == [present |-> FALSE, object |-> FALSE, type |-> "", text |-> TextOther]

Item(type, text) == [present |-> TRUE, object |-> TRUE, type |-> type, text |-> text]

ScalarItem == [present |-> TRUE, object |-> FALSE, type |-> "", text |-> TextOther]

\* The part field of Opencode: absent, an object, or not an object.
NoPart ==
    [present |-> FALSE, object |-> FALSE, type |-> "", text |-> <<>>,
     reason |-> "", sessionID |-> ""]

Part(type, text, reason, sid) ==
    [present |-> TRUE, object |-> TRUE, type |-> type, text |-> text,
     reason |-> reason, sessionID |-> sid]

ScalarPart ==
    [present |-> TRUE, object |-> FALSE, type |-> "", text |-> <<>>,
     reason |-> "", sessionID |-> ""]

\* UnifiedEvent with every field at its zero value.
ZeroEvent ==
    [type |-> "", threadID |-> "", item |-> NoItem, subtype |-> "",
     sessionID |-> "", result |-> <<>>, role |-> "", content |-> <<>>,
     delta |-> "nil", status |-> "", opencodeSessionID |-> "", part |-> NoPart]

Line(kind, ev) == [kind |-> kind, ev |-> ev]

(***************************************************************************)
(* The lines of the model.                                                 *)
(***************************************************************************)
CodexEvent(type, tid, item) ==
    [ZeroEvent EXCEPT !.type = type, !.threadID = tid, !.item = item]

AgentTexts ==
    {TextString(<<"h", "i">>), TextString(<<"i">>), TextString(<<>>),
     TextArray(<<Elem(TRUE, <<"h">>), Elem(TRUE, <<"i">>)>>),
     TextArray(<<Elem(TRUE, <<"i">>), Elem(FALSE, <<>>)>>),
     TextOther}

CodexEvents ==
    {CodexEvent("thread.started", tid, NoItem) : tid \in {"", "T1", "T2"}}
        \cup {CodexEvent("thread.completed", tid, NoItem) : tid \in {"", "T1"}}
        \cup {CodexEvent("turn.started", "", NoItem),
              CodexEvent("turn.completed", "", NoItem),
              CodexEvent("item.completed", "", NoItem),
              CodexEvent("item.completed", "", ScalarItem),
              CodexEvent("item.completed", "", Item("reasoning", TextString(<<"h">>)))}
        \cup {CodexEvent("item.completed", "", Item("agent_message", t)) : t \in AgentTexts}

ClaudeEvents ==
    {[ZeroEvent EXCEPT !.type = "result", !.sessionID = "S1", !.result = <<"h">>]}

GeminiEvents ==
    {[ZeroEvent EXCEPT !.type = "message", !.role = "assistant",
                       !.content = <<"i">>, !.delta = "true"],
     [ZeroEvent EXCEPT !.type = "result", !.status = "success"]}

OpencodeEvents ==
    {[ZeroEvent EXCEPT !.type = "text", !.opencodeSessionID = "S2",
                       !.part = Part("text", <<"h">>, "", "")],
     [ZeroEvent EXCEPT !.type = "step_finish", !.opencodeSessionID = "S2",
                       !.part = Part("step-finish", <<>>, "stop", "S2")]}

\* Lines that are no event: a blank line, a line of more than
\* jsonLineMaxBytes bytes ("overlongBlank": one whose first
\* jsonLinePreviewBytes bytes are white space), a line that does not
\* decode into UnifiedEvent.
BadLines == {Line("overlong", ZeroEvent), Line("invalid", ZeroEvent)}

Lines ==
    {Line("blank", ZeroEvent), Line("overlongBlank", ZeroEvent)} \cup BadLines
        \cup {Line("event", e) :
                 e \in CodexEvents \cup ClaudeEvents \cup GeminiEvents \cup OpencodeEvents}

(***************************************************************************)
(* The events of one backend each, for the streams of a single dialect.    *)
(***************************************************************************)
ClaudeEvent(type, subtype, sid, result) ==
    [ZeroEvent EXCEPT !.type = type, !.subtype = subtype, !.sessionID = sid,
                      !.result = result]

\* Result events and system events, with or without session_id and result.
\* (A result event with neither is no Claude event.)
ClaudeDialectEvents ==
    {ClaudeEvent("result", "", sid, r) :
         sid \in {"", "S1", "S3"}, r \in {<<>>, <<"h">>, <<"i">>}}
        \cup {ClaudeEvent("system", "init", sid, r) :
                 sid \in {"", "S1", "S3"}, r \in {<<>>, <<"h">>}}

GeminiEvent(type, sid, role, content, delta, status) ==
    [ZeroEvent EXCEPT !.type = type, !.sessionID = sid, !.role = role,
                      !.content = content, !.delta = delta, !.status = status]

GeminiDialectEvents ==
    {GeminiEvent("init", sid, "", <<>>, "nil", "") : sid \in {"S1", "S3"}}
        \cup {GeminiEvent("message", "", "assistant", c, "true", "") :
                 c \in {<<"h">>, <<"i">>}}
        \cup {GeminiEvent("result", "", "", <<>>, "nil", status) :
                 status \in {"success", "error", "complete", "failed", "running"}}
        \cup {GeminiEvent("message", "", "assistant", <<"h">>, "false", "success"),
              GeminiEvent("result", "S3", "", <<"i">>, "nil", "success"),
              GeminiEvent("result", "", "assistant", <<>>, "nil", "")}

OpencodeEvent(type, sid, part) ==
    [ZeroEvent EXCEPT !.type = type, !.opencodeSessionID = sid, !.part = part]

OpencodeDialectEvents ==
    {OpencodeEvent("text", "S2", Part("text", <<"h">>, "", "")),
     OpencodeEvent("text", "S2", Part("text", <<"i">>, "", "S4")),
     OpencodeEvent("text", "S4", Part("text", <<"i">>, "", "")),
     OpencodeEvent("text", "S2", Part("text", <<>>, "", "")),
     OpencodeEvent("text", "S2", Part("step-finish", <<"h">>, "stop", "")),
     OpencodeEvent("text", "S2", ScalarPart),
     OpencodeEvent("tool_use", "S2", Part("tool", <<"x">>, "", "")),
     OpencodeEvent("step_start", "S4", Part("step-start", <<>>, "stop", "")),
     OpencodeEvent("step_finish", "S2", Part("step-finish", <<>>, "stop", "S2")),
     OpencodeEvent("step_finish", "S2", Part("step-finish", <<>>, "tool-calls", ""))}

(***************************************************************************)
(* The loop body: the backend of an event is detected by the fields it     *)
(* carries, and the event is handled by the first backend that matches.    *)
(* A handler maps the locals of the parser to their new values; fired is   *)
(* the sequence of callbacks it calls.                                     *)
(***************************************************************************)
\* The type of the item's header, "" if the item is no object.
ItemHeaderType(e) == IF e.item.present /\ e.item.object THEN e.item.type ELSE ""

IsCodex(e) ==
    \/ e.threadID # ""
    \/ e.item.present /\ ItemHeaderType(e) # ""
    \/ e.type = "turn.started" \/ e.type = "turn.completed"

IsClaude(e) ==
    \/ e.subtype # "" \/ e.result # <<>>
    \/ e.type = "result" /\ e.sessionID # "" /\ e.status = ""

IsGemini(e) ==
    \/ e.type = "init" /\ e.sessionID # ""
    \/ e.role # ""
    \/ e.delta # "nil"
    \/ e.status # ""

IsOpencode(e) == e.opencodeSessionID # "" /\ e.part.present

Locals ==
    [threadID |-> threadID, codexMessage |-> codexMessage,
     claudeMessage |-> claudeMessage, geminiBuffer |-> geminiBuffer,
     opencodeMessage |-> opencodeMessage, warnings |-> warnings, fired |-> <<>>]

\* A handler that appends the text of every part.
HandleOpencodeAnyText(l, e) ==
    LET tid == IF l.threadID = "" THEN e.opencodeSessionID ELSE l.threadID IN
    IF ~e.part.object THEN [l EXCEPT !.threadID = tid, !.warnings = @ + 1]
    ELSE LET text == e.part.text # <<>>
             stop == e.part.type = "step-finish" /\ e.part.reason = "stop"
         IN  [l EXCEPT !.threadID = tid,
                       !.opencodeMessage = IF text THEN @ \o e.part.text ELSE @,
                       !.fired = (IF text THEN <<"message">> ELSE <<>>)
                                    \o (IF stop THEN <<"complete">> ELSE <<>>)]

HandleOpencode(l, e) ==
    LET tid == IF l.threadID = "" THEN e.opencodeSessionID ELSE l.threadID IN
    IF ~e.part.object THEN [l EXCEPT !.threadID = tid, !.warnings = @ + 1]
    ELSE LET tid2 == IF e.part.sessionID # "" /\ tid = "" THEN e.part.sessionID ELSE tid
             text == e.type = "text" /\ e.part.text # <<>>
             stop == e.part.type = "step-finish" /\ e.part.reason = "stop"
         IN  [l EXCEPT !.threadID = tid2,
                       !.opencodeMessage = IF text THEN @ \o e.part.text ELSE @,
                       !.fired = (IF text THEN <<"message">> ELSE <<>>)
                                    \o (IF stop THEN <<"complete">> ELSE <<>>)]

HandleCodex(l, e) ==
    IF e.type = "thread.started" THEN [l EXCEPT !.threadID = e.threadID]
    ELSE IF e.type = "thread.completed"
    THEN [l EXCEPT !.threadID = IF e.threadID # "" /\ @ = "" THEN e.threadID ELSE @,
                   !.fired = <<"complete">>]
    ELSE IF e.type = "turn.completed" THEN [l EXCEPT !.fired = <<"complete">>]
    ELSE IF e.type = "item.completed" /\ ItemHeaderType(e) = "agent_message"
              /\ e.item.present
    THEN LET normalized == NormalizeText(e.item.text) IN
         IF normalized # <<>>
         THEN [l EXCEPT !.codexMessage = normalized, !.fired = <<"message">>]
         ELSE l
    ELSE l

\* A handler that keeps the first result it has seen.
HandleClaudeFirstResult(l, e) ==
    [l EXCEPT !.threadID = IF e.sessionID # "" /\ @ = "" THEN e.sessionID ELSE @,
              !.claudeMessage = IF e.result # <<>> /\ @ = <<>> THEN e.result ELSE @,
              !.fired = (IF e.result # <<>> THEN <<"message">> ELSE <<>>)
                           \o (IF e.type = "result" THEN <<"complete">> ELSE <<>>)]

HandleClaude(l, e) ==
    [l EXCEPT !.threadID = IF e.sessionID # "" /\ @ = "" THEN e.sessionID ELSE @,
              !.claudeMessage = IF e.result # <<>> THEN e.result ELSE @,
              !.fired = (IF e.result # <<>> THEN <<"message">> ELSE <<>>)
                           \o (IF e.type = "result" THEN <<"complete">> ELSE <<>>)]

\* A completion test that knows the status success only.
GeminiDoneSuccessOnly(e) == e.type = "result" /\ e.status = "success"

GeminiDone(e) ==
    e.type = "result" /\ e.status \in {"success", "error", "complete", "failed"}

HandleGemini(l, e) ==
    [l EXCEPT !.threadID = IF e.sessionID # "" /\ @ = "" THEN e.sessionID ELSE @,
              !.geminiBuffer = IF e.content # <<>> THEN @ \o e.content ELSE @,
              !.fired = IF e.status = "" THEN <<>>
                        ELSE <<"message">>
                                 \o (IF GeminiDone(e) THEN <<"complete">> ELSE <<>>)]

\* A dispatch in which the latest dialect wins.
HandleEventLatestFirst(l, e) ==
    IF IsGemini(e) THEN HandleGemini(l, e)
    ELSE IF IsClaude(e) THEN HandleClaude(l, e)
    ELSE IF IsCodex(e) THEN HandleCodex(l, e)
    ELSE IF IsOpencode(e) THEN HandleOpencode(l, e)
    ELSE l

HandleEvent(l, e) ==
    IF IsOpencode(e) THEN HandleOpencode(l, e)
    ELSE IF IsCodex(e) THEN HandleCodex(l, e)
    ELSE IF IsClaude(e) THEN HandleClaude(l, e)
    ELSE IF IsGemini(e) THEN HandleGemini(l, e)
    ELSE l

ParseIdle ==
    /\ ppc = "none"
    /\ stream = <<>>
    /\ totalEvents = 0
    /\ warnings = 0
    /\ readErr = FALSE
    /\ threadID = ""
    /\ codexMessage = <<>>
    /\ claudeMessage = <<>>
    /\ geminiBuffer = <<>>
    /\ opencodeMessage = <<>>
    /\ fired = <<>>
    /\ message = <<>>

ParseInit ==
    /\ ppc = "reading"
    /\ stream = <<>>
    /\ totalEvents = 0
    /\ warnings = 0
    /\ readErr = FALSE
    /\ threadID = ""
    /\ codexMessage = <<>>
    /\ claudeMessage = <<>>
    /\ geminiBuffer = <<>>
    /\ opencodeMessage = <<>>
    /\ fired = <<>>
    /\ message = <<>>

\* readLineWithLimit reports a line of more than maxBytes bytes as too long
\* and returns its preview in place of the line.
TooLong(line) == line.kind \in {"overlong", "overlongBlank"}

\* bytes.TrimSpace of what readLineWithLimit returned is empty.
TrimmedEmpty(line) == line.kind \in {"blank", "overlongBlank"}

\* The body of the loop for one line: a line that is empty once trimmed is
\* passed over; an overlong line and a line that does not decode are passed
\* over with a warning; an event is handled.
HandleLine(l, line) ==
    IF TrimmedEmpty(line) THEN l
    ELSE IF TooLong(line) THEN [l EXCEPT !.warnings = @ + 1]
    ELSE IF line.kind = "invalid" THEN [l EXCEPT !.warnings = @ + 1]
    ELSE HandleEvent(l, line.ev)

ZeroLocals ==
    [threadID |-> "", codexMessage |-> <<>>, claudeMessage |-> <<>>,
     geminiBuffer |-> <<>>, opencodeMessage |-> <<>>, warnings |-> 0,
     fired |-> <<>>]

\* The locals of the parser after the first n of the lines.
RECURSIVE ParseLines(_, _)
ParseLines(lines, n) ==
    IF n = 0 THEN ZeroLocals
    ELSE HandleLine([ParseLines(lines, n - 1) EXCEPT !.fired = <<>>], lines[n])

\* The message chosen from the locals at the end of the stream.
MessageOf(l) ==
    IF l.opencodeMessage # <<>> THEN l.opencodeMessage
    ELSE IF l.geminiBuffer # <<>> THEN l.geminiBuffer
    ELSE IF l.claudeMessage # <<>> THEN l.claudeMessage
    ELSE l.codexMessage

\* One turn of the loop.
ReadLine(line) ==
    /\ ppc = "reading"
    /\ Len(stream) < MaxLines
    /\ stream' = Append(stream, line)
    /\ totalEvents' = IF TrimmedEmpty(line) THEN totalEvents ELSE totalEvents + 1
    /\ LET l == HandleLine(Locals, line) IN
       /\ threadID' = l.threadID
       /\ codexMessage' = l.codexMessage
       /\ claudeMessage' = l.claudeMessage
       /\ geminiBuffer' = l.geminiBuffer
       /\ opencodeMessage' = l.opencodeMessage
       /\ warnings' = l.warnings
       /\ fired' = l.fired
    /\ UNCHANGED <<ppc, message, readErr>>
    /\ UNCHANGED nonParseVars

\* A selection that prefers the replace-wins dialects.
FinalMessageReplaceFirst ==
    IF codexMessage # <<>> THEN codexMessage
    ELSE IF claudeMessage # <<>> THEN claudeMessage
    ELSE IF geminiBuffer # <<>> THEN geminiBuffer
    ELSE opencodeMessage

\* The message of the stream: Opencode's if there is one, else Gemini's,
\* else Claude's, else Codex's.
FinalMessage ==
    IF opencodeMessage # <<>> THEN opencodeMessage
    ELSE IF geminiBuffer # <<>> THEN geminiBuffer
    ELSE IF claudeMessage # <<>> THEN claudeMessage
    ELSE codexMessage

\* The end of the stream (EOF), or a read error, which is warned of; the
\* loop is left and the message is chosen.
EndOfStream ==
    /\ ppc = "reading"
    /\ ppc' = "done"
    /\ readErr' \in BOOLEAN
    /\ warnings' = IF readErr' THEN warnings + 1 ELSE warnings
    /\ message' = FinalMessage
    /\ fired' = <<>>
    /\ UNCHANGED <<stream, totalEvents, threadID, codexMessage, claudeMessage,
                   geminiBuffer, opencodeMessage>>
    /\ UNCHANGED nonParseVars

ParseNext ==
    \/ \E line \in Lines : ReadLine(line)
    \/ EndOfStream

(***************************************************************************)
(* What a child may write to its stdout: a clean Codex run, a run without  *)
(* completion event, runs with lines that do not decode or are overlong,   *)
(* and runs that give no message at all.                                   *)
(***************************************************************************)
AgentLine ==
    Line("event", CodexEvent("item.completed", "", Item("agent_message", TextString(<<"i">>))))

CompletionLine == Line("event", CodexEvent("turn.completed", "", NoItem))

ProtocolStreams ==
    {<<>>,
     <<AgentLine, CompletionLine>>,
     <<AgentLine>>,
     <<Line("invalid", ZeroEvent), AgentLine, CompletionLine>>,
     <<Line("overlong", ZeroEvent), AgentLine>>,
     <<Line("invalid", ZeroEvent), Line("overlong", ZeroEvent)>>}

(***************************************************************************)
(* The process runner: Run(task, timeout) launches the child, waits for it *)
(* under the task's deadline and context, and escalates from the terminate *)
(* signal to the kill. Time is counted in seconds; the runner reacts to a  *)
(* deadline, a done context and a dead child before the clock moves on.    *)
(***************************************************************************)
\* The result of a command that did not start.
StartFailed == [exit |-> 1, cause |-> "start", message |-> <<>>, sessionID |-> ""]

NoTaskResult == [exit |-> -1, cause |-> "none", message |-> <<>>, sessionID |-> ""]

RunIdle ==
    /\ rpc = "none"
    /\ child = "none"
    /\ proc = "nil"
    /\ now = 0
    /\ rtimeout = 0
    /\ forceKillDelay = 0
    /\ rctxDone = FALSE
    /\ termAt = -1
    /\ killAt = -1
    /\ sigs = <<>>
    /\ finishAt = -1
    /\ childCode = -1
    /\ stdout = <<>>
    /\ taskResult = NoTaskResult

RunInit ==
    /\ rpc = "idle"
    /\ child = "none"
    /\ proc = "nil"
    /\ now = 0
    /\ rtimeout \in 0 .. MaxTimeout
    /\ forceKillDelay \in 1 .. MaxGrace
    /\ rctxDone = FALSE
    /\ termAt = -1
    /\ killAt = -1
    /\ sigs = <<>>
    /\ finishAt = -1
    /\ childCode = -1
    /\ stdout = <<>>
    /\ taskResult = NoTaskResult

\* func SetForceKillDelay(seconds int32): forceKillDelay.Store(seconds)
SetForceKillDelay(seconds) ==
    /\ rpc = "idle"
    /\ forceKillDelay' = seconds
    /\ UNCHANGED <<rpc, child, proc, now, rtimeout, rctxDone, termAt, killAt,
                   sigs, finishAt, outVars>>
    /\ UNCHANGED nonRunVars

\* The command starts (the handle is set and the child lives), or it fails
\* to start and Run returns at once.
RunStart ==
    /\ rpc = "idle"
    /\ \/ /\ proc' = "live"
          /\ child' = "alive"
          /\ rpc' = "waiting"
          /\ UNCHANGED <<finishAt, taskResult>>
       \/ /\ proc' = "nil"
          /\ child' = "none"
          /\ rpc' = "returned"
          /\ finishAt' = now
          /\ taskResult' = StartFailed
    /\ UNCHANGED <<now, rtimeout, forceKillDelay, rctxDone, termAt, killAt, sigs,
                   childCode, stdout>>
    /\ UNCHANGED nonRunVars

\* The task's deadline: timeout seconds after the start; 0 means none.
DeadlineDue == rtimeout > 0 /\ now >= rtimeout

CountdownOver == termAt >= 0 /\ now >= termAt + forceKillDelay

\* The batch context is cancelled by its owner.
RunCancel ==
    /\ rpc \in {"waiting", "terminating", "killed"}
    /\ ~rctxDone
    /\ now + MaxGrace < MaxClock
    /\ rctxDone' = TRUE
    /\ UNCHANGED <<rpc, child, proc, now, rtimeout, forceKillDelay, termAt, killAt,
                   sigs, finishAt, outVars>>
    /\ UNCHANGED nonRunVars

\* The child exits with a code of its own: by itself, or because it obeys
\* the terminate signal.
ChildExits(code) ==
    /\ child = "alive"
    /\ child' = "exited"
    /\ childCode' = code
    /\ UNCHANGED <<rpc, proc, now, rtimeout, forceKillDelay, rctxDone, termAt,
                   killAt, sigs, finishAt, stdout, taskResult>>
    /\ UNCHANGED nonRunVars

\* A terminate that goes straight to the kill.
SendTermSignalKills(p) == IF p = "nil" THEN "none" ELSE "SIGKILL"

\* sendTermSignal: nothing for a nil handle, else proc.Signal(SIGTERM).
SendTermSignal(p) == IF p = "nil" THEN "none" ELSE "SIGTERM"

Sent(sig) == IF sig = "none" THEN sigs ELSE Append(sigs, sig)

\* The deadline has expired or the context is done: the runner sends the
\* terminate signal and starts the force-kill countdown.
Terminate ==
    /\ rpc = "waiting"
    /\ child \in {"alive", "exited"}
    /\ rctxDone \/ DeadlineDue
    /\ sigs' = Sent(SendTermSignal(proc))
    /\ termAt' = now
    /\ rpc' = "terminating"
    /\ UNCHANGED <<child, proc, now, rtimeout, forceKillDelay, rctxDone, killAt,
                   finishAt, outVars>>
    /\ UNCHANGED nonRunVars

\* The countdown is over and the child still lives: it is killed.
ForceKill ==
    /\ rpc = "terminating"
    /\ CountdownOver
    /\ child = "alive"
    /\ sigs' = Append(sigs, "SIGKILL")
    /\ killAt' = now
    /\ child' = "exited"
    /\ rpc' = "killed"
    /\ UNCHANGED <<proc, now, rtimeout, forceKillDelay, rctxDone, termAt, finishAt,
                   outVars>>
    /\ UNCHANGED nonRunVars

\* Why the runner terminated its child: the task's deadline, or the done
\* context; "none" if it did not.
TermCause ==
    IF termAt < 0 THEN "none"
    ELSE IF rtimeout > 0 /\ termAt >= rtimeout THEN "timeout"
    ELSE "cancelled"

\* A result that counts a stream without a message as a failure.
TaskResultNeedsMessage(code, cause, out) ==
    LET l == ParseLines(out, Len(out))
        bad == cause # "none" \/ MessageOf(l) = <<>>
    IN  [exit |-> IF bad THEN 1 ELSE code,
         cause |-> IF cause # "none" THEN cause
                   ELSE IF bad \/ code # 0 THEN "failed" ELSE "ok",
         message |-> MessageOf(l), sessionID |-> l.threadID]

\* The TaskResult of a child that ran: message and session ID are the
\* normalizer's; the exit code is the child's, or the wrapper's own after a
\* deadline or a cancellation.
TaskResultOf(code, cause, out) ==
    LET l == ParseLines(out, Len(out)) IN
    [exit |-> IF cause # "none" THEN 1 ELSE code,
     cause |-> IF cause # "none" THEN cause
               ELSE IF code # 0 THEN "failed" ELSE "ok",
     message |-> MessageOf(l), sessionID |-> l.threadID]

\* wait() returns for the dead child, the normalizer has read the child's
\* stdout to its end, and Run returns the result.
WaitReturns ==
    /\ rpc \in {"waiting", "terminating", "killed"}
    /\ child = "exited"
    /\ child' = "reaped"
    /\ rpc' = "returned"
    /\ finishAt' = now
    /\ \E out \in ProtocolStreams :
           /\ stdout' = out
           /\ taskResult' = TaskResultOf(childCode, TermCause, out)
    /\ UNCHANGED <<proc, now, rtimeout, forceKillDelay, rctxDone, termAt, killAt, sigs,
                   childCode>>
    /\ UNCHANGED nonRunVars

\* What the runner does without letting time pass.
RunUrgent ==
    \/ rpc = "idle"
    \/ rpc = "waiting" /\ (rctxDone \/ DeadlineDue)
    \/ rpc = "terminating" /\ CountdownOver /\ child = "alive"
    \/ rpc \in {"waiting", "terminating", "killed"} /\ child = "exited"

Tick ==
    /\ rpc \in {"waiting", "terminating"}
    /\ ~RunUrgent
    /\ now < MaxClock
    /\ now' = now + 1
    /\ UNCHANGED <<rpc, child, proc, rtimeout, forceKillDelay, rctxDone, termAt,
                   killAt, sigs, finishAt, outVars>>
    /\ UNCHANGED nonRunVars

RunProgress == RunStart \/ Terminate \/ ForceKill \/ WaitReturns

RunNext ==
    \/ \E seconds \in 0 .. MaxGrace : SetForceKillDelay(seconds)
    \/ RunStart
    \/ RunCancel
    \/ \E code \in 0 .. MaxExit : ChildExits(code)
    \/ Terminate
    \/ ForceKill
    \/ WaitReturns
    \/ Tick

(***************************************************************************)
(* The task-block parser: ParseParallelConfig. A string is a sequence of   *)
(* characters. The document, cut at ---TASK---, is a sequence of blocks; a *)
(* block is                                                                *)
(*   [sep, meta, content]:                                                 *)
(* whether it holds ---CONTENT---, the lines before it and the text after  *)
(* it. A line is [colon, key, value]: whether it holds a ":", the trimmed  *)
(* text before the first ":" and the text after it.                        *)
(***************************************************************************)
IsSpace(c) == c \in {" ", "\t", "\r", "\n"}

RECURSIVE TrimLeft(_)
TrimLeft(s) ==
    IF s # <<>> /\ IsSpace(Head(s)) THEN TrimLeft(Tail(s)) ELSE s

RECURSIVE TrimRight(_)
TrimRight(s) ==
    IF s # <<>> /\ IsSpace(s[Len(s)]) THEN TrimRight(SubSeq(s, 1, Len(s) - 1)) ELSE s

\* strings.TrimSpace
TrimSpace(s) == TrimRight(TrimLeft(s))

MetaLine(key, value) == [colon |-> TRUE, key |-> key, value |-> value]

\* A line without a colon.
PlainLine == [colon |-> FALSE, key |-> "", value |-> <<>>]

TaskBlock(meta, content) == [sep |-> TRUE, meta |-> meta, content |-> content]

\* Text without ---CONTENT---; no text at all when meta is empty.
TextBlock(meta) == [sep |-> FALSE, meta |-> meta, content |-> <<>>]

\* strings.TrimSpace(taskBlock) == ""
BlankBlock(b) == ~b.sep /\ b.meta = <<>>

defaultWorkdir == <<".">>

\* The characters ValidateAgentName lets through.
AgentNameChars ==
    {"a", "b", "c", "d", "e", "f", "g", "h", "i", "j", "k", "l", "m", "n", "o",
     "p", "q", "r", "s", "t", "u", "v", "w", "x", "y", "z",
     "A", "B", "C", "D", "E", "F", "G", "H", "I", "J", "K", "L", "M", "N", "O",
     "P", "Q", "R", "S", "T", "U", "V", "W", "X", "Y", "Z",
     "0", "1", "2", "3", "4", "5", "6", "7", "8", "9", "-", "_"}

\* ValidateAgentName: TRUE when the name passes.
ValidateAgentName(name) ==
    /\ TrimSpace(name) # <<>>
    /\ \A i \in 1 .. Len(name) : name[i] \in AgentNameChars

\* modelsConfig(): the presets of models.json merged over the defaults.
\* Agent "p" has every field set, agent "q" a backend only; the agents of
\* DynamicAgents have a prompt file under ~/.codeagent/agents and no preset.
ModelsConfig ==
    [DefaultBackend |-> <<"o">>,
     DefaultModel |-> <<"k">>,
     Agents |->
        [n \in {<<"p">>, <<"q">>} |->
            IF n = <<"p">>
            THEN [Backend |-> <<"g">>, Model |-> <<"m">>, PromptFile |-> <<"~", "p">>,
                  Reasoning |-> <<"h">>]
            ELSE [Backend |-> <<" ">>, Model |-> <<>>, PromptFile |-> <<>>,
                  Reasoning |-> <<>>]]]

DynamicAgents == {<<"y">>}

\* resolveAgentConfig: backend, model, promptFile, reasoning.
ResolveAgentConfig(agentName) ==
    LET cfg == ModelsConfig IN
    IF agentName \in DOMAIN cfg.Agents
    THEN LET agent == cfg.Agents[agentName] IN
         [backend |-> IF TrimSpace(agent.Backend) = <<>> THEN cfg.DefaultBackend
                      ELSE TrimSpace(agent.Backend),
          model |-> TrimSpace(agent.Model),
          promptFile |-> agent.PromptFile,
          reasoning |-> agent.Reasoning]
    ELSE IF agentName \in DynamicAgents
    THEN [backend |-> cfg.DefaultBackend, model |-> cfg.DefaultModel,
          promptFile |-> <<"~">> \o agentName, reasoning |-> <<>>]
    ELSE [backend |-> cfg.DefaultBackend, model |-> cfg.DefaultModel,
          promptFile |-> <<>>, reasoning |-> <<>>]

\* strings.Split(value, ","), each piece trimmed, the empty ones dropped.
RECURSIVE SplitDependencies(_, _)
SplitDependencies(value, piece) ==
    LET done == IF TrimSpace(piece) = <<>> THEN <<>> ELSE <<TrimSpace(piece)>> IN
    IF value = <<>> THEN done
    ELSE IF Head(value) = "," THEN done \o SplitDependencies(Tail(value), <<>>)
    ELSE SplitDependencies(Tail(value), Append(piece, Head(value)))

\* config.ParseBoolFlag(value, false) for the values of the model.
ParseBoolFlag(value, defaultValue) ==
    IF TrimSpace(value) \in {<<"1">>, <<"o", "n">>} THEN TRUE
    ELSE IF TrimSpace(value) \in {<<"0">>, <<"n", "o">>} THEN FALSE
    ELSE defaultValue

\* TaskSpec{WorkDir: defaultWorkdir}
ZeroTaskSpec ==
    [ID |-> <<>>, Task |-> <<>>, WorkDir |-> defaultWorkdir, Dependencies |-> <<>>,
     SessionID |-> <<>>, Backend |-> <<>>, Model |-> <<>>, ReasoningEffort |-> <<>>,
     Agent |-> <<>>, PromptFile |-> <<>>, SkipPermissions |-> FALSE, Mode |-> ""]

\* The locals of one round of the loop over the blocks.
ZeroBlockLocals == [task |-> ZeroTaskSpec, agentSpecified |-> FALSE, err |-> ""]

\* A session_id key that leaves the mode alone.
SessionIDKeepsMode(l, value) == [l EXCEPT !.task.SessionID = value]

\* case "session_id"
SessionIDKey(l, value) ==
    [l EXCEPT !.task.SessionID = value, !.task.Mode = "resume"]

\* A workdir key that takes every value.
WorkdirKeyAny(l, value) == [l EXCEPT !.task.WorkDir = value]

\* case "workdir"
WorkdirKey(l, value) ==
    IF value = <<"-">> THEN [l EXCEPT !.err = "invalid workdir"]
    ELSE [l EXCEPT !.task.WorkDir = value]

\* The body of the loop over the lines of the metadata.
MetaKey(l, line) ==
    LET key == line.key
        value == TrimSpace(line.value)
    IN  IF l.err # "" \/ ~line.colon THEN l
        ELSE IF key = "id" THEN [l EXCEPT !.task.ID = value]
        ELSE IF key = "workdir" THEN WorkdirKey(l, value)
        ELSE IF key = "session_id" THEN SessionIDKey(l, value)
        ELSE IF key = "backend" THEN [l EXCEPT !.task.Backend = value]
        ELSE IF key = "model" THEN [l EXCEPT !.task.Model = value]
        ELSE IF key = "reasoning_effort" THEN [l EXCEPT !.task.ReasoningEffort = value]
        ELSE IF key = "agent" THEN [l EXCEPT !.task.Agent = value, !.agentSpecified = TRUE]
        ELSE IF key \in {"skip_permissions", "skip-permissions"}
        THEN [l EXCEPT !.task.SkipPermissions =
                          IF value = <<>> THEN TRUE ELSE ParseBoolFlag(value, FALSE)]
        ELSE IF key = "dependencies"
        THEN [l EXCEPT !.task.Dependencies = @ \o SplitDependencies(value, <<>>)]
        ELSE l

RECURSIVE MetaLines(_, _)
MetaLines(meta, n) ==
    IF n = 0 THEN ZeroBlockLocals ELSE MetaKey(MetaLines(meta, n - 1), meta[n])

\* if agentSpecified { ... }: the preset fills the fields of the task.
AgentPreset(task) ==
    LET r == ResolveAgentConfig(task.Agent) IN
    [task EXCEPT !.Backend = IF @ = <<>> THEN r.backend ELSE @,
                 !.Model = IF @ = <<>> THEN r.model ELSE @,
                 !.ReasoningEffort = IF @ = <<>> THEN r.reasoning ELSE @,
                 !.PromptFile = r.promptFile]

\* One non-blank block: the task it yields, or the error that ends the
\* parse. seenIDs are the IDs of the tasks before it.
ParseBlock(b, seenIDs) ==
    IF ~b.sep THEN [task |-> ZeroTaskSpec, err |-> "missing separator"]
    ELSE
    LET l == MetaLines(b.meta, Len(b.meta))
        content == TrimSpace(b.content)
        moded == [l.task EXCEPT !.Mode = IF @ = "" THEN "new" ELSE @]
        agentErr == IF ~l.agentSpecified THEN ""
                    ELSE IF TrimSpace(moded.Agent) = <<>> THEN "empty agent"
                    ELSE IF ~ValidateAgentName(moded.Agent) THEN "invalid agent"
                    ELSE ""
        task == IF l.agentSpecified /\ agentErr = "" THEN AgentPreset(moded) ELSE moded
    IN  IF l.err # "" THEN [task |-> ZeroTaskSpec, err |-> l.err]
        ELSE IF agentErr # "" THEN [task |-> ZeroTaskSpec, err |-> agentErr]
        ELSE IF task.ID = <<>> THEN [task |-> ZeroTaskSpec, err |-> "missing id"]
        ELSE IF content = <<>> THEN [task |-> ZeroTaskSpec, err |-> "missing content"]
        ELSE IF task.Mode = "resume" /\ TrimSpace(task.SessionID) = <<>>
        THEN [task |-> ZeroTaskSpec, err |-> "empty session_id"]
        ELSE IF task.ID \in seenIDs THEN [task |-> ZeroTaskSpec, err |-> "duplicate id"]
        ELSE [task |-> [task EXCEPT !.Task = content], err |-> ""]

\* BuildArgs of the four backends: what the argv says of the session, the
\* model and the target.
NoArgs == [backend |-> "", resume |-> "", sessionID |-> <<>>, model |-> <<>>,
           target |-> <<>>]

BuildCodexArgs(cfg, targetArg) ==
    LET isResume == cfg.Mode = "resume" /\ TrimSpace(cfg.SessionID) # <<>> IN
    [backend |-> "codex",
     resume |-> IF isResume THEN "resume" ELSE "",
     sessionID |-> IF isResume THEN TrimSpace(cfg.SessionID) ELSE <<>>,
     model |-> TrimSpace(cfg.Model),
     target |-> targetArg]

buildClaudeArgs(cfg, targetArg) ==
    LET isResume == cfg.Mode = "resume" /\ cfg.SessionID # <<>> IN
    [backend |-> "claude",
     resume |-> IF isResume THEN "-r" ELSE "",
     sessionID |-> IF isResume THEN cfg.SessionID ELSE <<>>,
     model |-> TrimSpace(cfg.Model),
     target |-> targetArg]

buildGeminiArgs(cfg, targetArg) ==
    LET isResume == cfg.Mode = "resume" /\ cfg.SessionID # <<>> IN
    [backend |-> "gemini",
     resume |-> IF isResume THEN "-r" ELSE "",
     sessionID |-> IF isResume THEN cfg.SessionID ELSE <<>>,
     model |-> TrimSpace(cfg.Model),
     target |-> targetArg]

buildOpencodeArgs(cfg, targetArg) ==
    LET isResume == cfg.Mode = "resume" /\ cfg.SessionID # <<>> IN
    [backend |-> "opencode",
     resume |-> IF isResume THEN "-s" ELSE "",
     sessionID |-> IF isResume THEN cfg.SessionID ELSE <<>>,
     model |-> TrimSpace(cfg.Model),
     target |-> IF targetArg # <<"-">> THEN targetArg ELSE <<>>]

BackendNames == {"codex", "claude", "gemini", "opencode"}

BuildArgs(backend, cfg, targetArg) ==
    IF backend = "codex" THEN BuildCodexArgs(cfg, targetArg)
    ELSE IF backend = "claude" THEN buildClaudeArgs(cfg, targetArg)
    ELSE IF backend = "gemini" THEN buildGeminiArgs(cfg, targetArg)
    ELSE buildOpencodeArgs(cfg, targetArg)

\* The Config the runner hands to BuildArgs for a task of the batch.
TaskConfig(task) ==
    [Mode |-> task.Mode, SessionID |-> task.SessionID, Model |-> task.Model,
     WorkDir |-> task.WorkDir]

NilConfig == [nil |-> TRUE, Tasks |-> <<>>]

BlockIdle ==
    /\ bpc = "none"
    /\ doc = <<>>
    /\ cfgTasks = <<>>
    /\ seen = {}
    /\ parallelConfig = NilConfig
    /\ configErr = ""
    /\ lastArgs = NoArgs

BlockInit ==
    /\ bpc = "reading"
    /\ doc = <<>>
    /\ cfgTasks = <<>>
    /\ seen = {}
    /\ parallelConfig = NilConfig
    /\ configErr = ""
    /\ lastArgs = NoArgs

\* One round of the loop over the blocks: a blank block is passed over, an
\* error ends the parse without a config.
ReadBlock(b) ==
    /\ bpc = "reading"
    /\ Len(doc) < MaxBlocks
    /\ doc' = Append(doc, b)
    /\ IF BlankBlock(b)
       THEN UNCHANGED <<bpc, cfgTasks, seen, configErr>>
       ELSE LET r == ParseBlock(b, seen) IN
            IF r.err # ""
            THEN /\ configErr' = r.err
                 /\ bpc' = "done"
                 /\ UNCHANGED <<cfgTasks, seen>>
            ELSE /\ cfgTasks' = Append(cfgTasks, r.task)
                 /\ seen' = seen \cup {r.task.ID}
                 /\ UNCHANGED <<bpc, configErr>>
    /\ UNCHANGED <<parallelConfig, lastArgs>>
    /\ UNCHANGED nonBlockVars

\* The document ends: an empty document and one without tasks are errors.
EndOfDocument ==
    /\ bpc = "reading"
    /\ bpc' = "done"
    /\ IF doc = <<>>
       THEN configErr' = "empty" /\ UNCHANGED parallelConfig
       ELSE IF cfgTasks = <<>>
       THEN configErr' = "no tasks" /\ UNCHANGED parallelConfig
       ELSE /\ parallelConfig' = [nil |-> FALSE, Tasks |-> cfgTasks]
            /\ UNCHANGED configErr
    /\ UNCHANGED <<doc, cfgTasks, seen, lastArgs>>
    /\ UNCHANGED nonBlockVars

\* The runner of task i builds the argv of its backend.
BuildTaskArgs(i, backend) ==
    /\ bpc = "done"
    /\ ~parallelConfig.nil
    /\ i \in DOMAIN parallelConfig.Tasks
    /\ lastArgs' = BuildArgs(backend, TaskConfig(parallelConfig.Tasks[i]), <<"-">>)
    /\ bpc' = "built"
    /\ UNCHANGED <<doc, cfgTasks, seen, parallelConfig, configErr>>
    /\ UNCHANGED nonBlockVars

\* The blocks of the model.
PlainBlocks ==
    {TextBlock(<<>>),
     TextBlock(<<MetaLine("id", <<"a">>)>>),
     TaskBlock(<<>>, <<"x">>),
     TaskBlock(<<MetaLine("id", <<"a">>)>>, <<" ">>)}
      \cup {TaskBlock(<<MetaLine("id", id)>>, <<"x", " ">>) :
                id \in {<<"a">>, <<" ", "b">>, <<" ">>}}
      \cup {TaskBlock(<<MetaLine("id", id), MetaLine("workdir", w)>>, <<"x">>) :
                id \in {<<"a">>, <<"b">>}, w \in {<<"-">>, <<"w">>}}
      \cup {TaskBlock(<<MetaLine("id", id), MetaLine("session_id", s)>>, <<"x">>) :
                id \in {<<"a">>, <<"b">>}, s \in {<<"s">>, <<" ">>}}
      \cup {TaskBlock(<<MetaLine("workdir", <<" ", "-">>), MetaLine("id", <<"a">>)>>, <<"x">>),
            TaskBlock(<<MetaLine("session_id", <<>>), MetaLine("session_id", <<"s">>),
                        MetaLine("id", <<"a">>)>>, <<"x">>),
            TaskBlock(<<MetaLine("id", <<"a">>), MetaLine("id", <<>>)>>, <<"x">>),
            TaskBlock(<<PlainLine, MetaLine("id", <<"b">>),
                        MetaLine("dependencies", <<"a", ",", " ", ",", "c">>),
                        MetaLine("skip_permissions", <<>>)>>, <<"x">>)}

\* The blocks with an agent key: the agent alone, before and after a key
\* the block sets itself, and the names ValidateAgentName refuses.
ExplicitLines ==
    {MetaLine("backend", <<"c">>), MetaLine("model", <<"n">>),
     MetaLine("reasoning_effort", <<"l">>), MetaLine("prompt_file", <<"f">>)}

AgentBlocks ==
    {TaskBlock(<<MetaLine("id", <<"a">>), MetaLine("agent", n)>>, <<"x">>) :
         n \in {<<"p">>, <<"q">>, <<"y">>, <<"z">>, <<>>, <<"a", "/">>, <<" ", "p">>,
                <<"p", " ", "q">>}}
      \cup {TaskBlock(<<MetaLine("id", <<"a">>), MetaLine("agent", <<"p">>), e>>, <<"x">>) :
                e \in ExplicitLines}
      \cup {TaskBlock(<<MetaLine("id", <<"b">>), e, MetaLine("agent", <<"p">>)>>, <<"x">>) :
                e \in ExplicitLines}
      \cup {TaskBlock(<<MetaLine("id", <<"b">>), MetaLine("backend", <<"c">>),
                        MetaLine("model", <<"n">>), MetaLine("agent", <<"z">>),
                        MetaLine("reasoning_effort", <<"l">>)>>, <<"x">>),
            TaskBlock(<<MetaLine("id", <<"c">>), MetaLine("prompt_file", <<"f">>)>>, <<"x">>)}

AgentNext ==
    \/ \E b \in AgentBlocks : ReadBlock(b)
    \/ EndOfDocument
    \/ \E i \in 1 .. MaxBlocks : \E backend \in BackendNames : BuildTaskArgs(i, backend)

BlockNext ==
    \/ \E b \in PlainBlocks : ReadBlock(b)
    \/ EndOfDocument
    \/ \E i \in 1 .. MaxBlocks : \E backend \in BackendNames : BuildTaskArgs(i, backend)

(***************************************************************************)
(* Single-task mode: the command line, the environment and the config file *)
(* give a Config (buildSingleConfig), and runSingleMode reads the task,    *)
(* wraps it with the prompt file and launches the backend. A token of argv *)
(* is --name, --name=value, -- or a word; the flags of the model all take  *)
(* a string.                                                               *)
(***************************************************************************)
Flag(name) == [kind |-> "flag", name |-> name, text |-> <<>>]

FlagEq(name, value) == [kind |-> "flageq", name |-> name, text |-> value]

Word(text) == [kind |-> "word", name |-> "", text |-> text]

DashDash == [kind |-> "dashdash", name |-> "", text |-> <<>>]

FlagNames == {"agent", "backend", "model", "reasoning-effort", "prompt-file"}

\* The characters of a token, for a token that is taken as a value; the
\* name of a flag stands for its characters.
TokenText(t) ==
    IF t.kind = "word" THEN t.text
    ELSE IF t.kind = "dashdash" THEN <<"-", "-">>
    ELSE <<"-", "-", t.name>> \o (IF t.kind = "flageq" THEN <<"=">> \o t.text ELSE <<>>)

NoFlags ==
    [changed |-> {}, value |-> [n \in FlagNames |-> <<>>], args |-> <<>>, err |-> FALSE]

\* cmd.ParseFlags: a flag takes the text after "=" or the next token,
\* whatever it looks like; after "--" every token is an argument.
RECURSIVE ParseFlags(_, _, _)
ParseFlags(argv, i, acc) ==
    IF acc.err \/ i > Len(argv) THEN acc
    ELSE LET t == argv[i] IN
         IF t.kind = "dashdash"
         THEN [acc EXCEPT !.args = @ \o [k \in 1 .. Len(argv) - i |-> TokenText(argv[i + k])]]
         ELSE IF t.kind = "word"
         THEN ParseFlags(argv, i + 1, [acc EXCEPT !.args = Append(@, t.text)])
         ELSE IF t.kind = "flageq"
         THEN ParseFlags(argv, i + 1,
                         [acc EXCEPT !.changed = @ \cup {t.name}, !.value[t.name] = t.text])
         ELSE IF i = Len(argv) THEN [acc EXCEPT !.err = TRUE]
         ELSE ParseFlags(argv, i + 2,
                         [acc EXCEPT !.changed = @ \cup {t.name},
                                     !.value[t.name] = TokenText(argv[i + 1])])

\* The index of the first token --name or --name=..., 0 if there is none.
firstFlagIndex(argv, name) ==
    LET hits == {i \in DOMAIN argv : argv[i].kind \in {"flag", "flageq"} /\ argv[i].name = name}
    IN  IF hits = {} THEN 0 ELSE CHOOSE i \in hits : \A j \in hits : i <= j

\* lastFlagIndex: the index of the last token --name or --name=..., 0 if
\* there is none (indices are counted from 1 here).
lastFlagIndex(argv, name) ==
    LET hits == {i \in DOMAIN argv : argv[i].kind \in {"flag", "flageq"} /\ argv[i].name = name}
    IN  IF hits = {} THEN 0 ELSE CHOOSE i \in hits : \A j \in hits : i >= j

\* v.GetString(key) of the viper of NewViper: the CODEAGENT_ variable if it
\* is set and not empty, the config file's value otherwise.
GetString(env, conf, key) == IF env[key] # <<>> THEN env[key] ELSE conf[key]

\* Abbreviated backend names: c for codex, l for claude, g for gemini, o
\* for opencode.
defaultBackendName == <<"c">>

Registry ==
    [k \in {<<"c">>, <<"l">>, <<"g">>, <<"o">>} |->
        IF k = <<"c">> THEN "codex" ELSE IF k = <<"l">> THEN "claude"
        ELSE IF k = <<"g">> THEN "gemini" ELSE "opencode"]

\* backend.Select: the name of the backend, "" for an unsupported one.
Select(name) ==
    LET key == TrimSpace(name) IN
    IF key = <<>> THEN "codex"
    ELSE IF key \in DOMAIN Registry THEN Registry[key]
    ELSE ""

NilSingleConfig ==
    [Mode |-> "", Task |-> <<>>, SessionID |-> <<>>, WorkDir |-> <<>>, Model |-> <<>>,
     ReasoningEffort |-> <<>>, ExplicitStdin |-> FALSE, Backend |-> <<>>, Agent |-> <<>>,
     PromptFile |-> <<>>, PromptFileExplicit |-> FALSE]

NoPreset == [backend |-> <<>>, model |-> <<>>, promptFile |-> <<>>, reasoning |-> <<>>]

\* The first error of a list of checks, "" if all pass.
RECURSIVE FirstError(_)
FirstError(errs) ==
    IF errs = <<>> THEN "" ELSE IF Head(errs) # "" THEN Head(errs) ELSE FirstError(Tail(errs))

\* The switch of buildSingleConfig over the backend: flag, preset, viper.
BackendOf(f, argv, agentName, resolved, fromViper) ==
    LET agentFlagChanged == "agent" \in f.changed
        backendFlagChanged == "backend" \in f.changed
    IN  IF agentFlagChanged /\ backendFlagChanged
               /\ lastFlagIndex(argv, "agent") > lastFlagIndex(argv, "backend")
        THEN resolved.backend
        ELSE IF ~backendFlagChanged /\ agentName # <<>> THEN resolved.backend
        ELSE IF ~backendFlagChanged
        THEN IF fromViper # <<>> THEN fromViper ELSE defaultBackendName
        ELSE TrimSpace(f.value["backend"])

\* The switch of buildSingleConfig over the model.
ModelOf(f, argv, agentName, resolved, fromViper) ==
    LET agentFlagChanged == "agent" \in f.changed
        modelFlagChanged == "model" \in f.changed
    IN  IF agentFlagChanged /\ modelFlagChanged
               /\ lastFlagIndex(argv, "agent") > lastFlagIndex(argv, "model")
        THEN TrimSpace(resolved.model)
        ELSE IF ~modelFlagChanged /\ agentName # <<>> THEN TrimSpace(resolved.model)
        ELSE IF ~modelFlagChanged THEN fromViper
        ELSE TrimSpace(f.value["model"])

\* The reasoning effort: flag, viper, preset.
ReasoningOf(f, agentName, resolved, fromViper) ==
    IF "reasoning-effort" \in f.changed THEN TrimSpace(f.value["reasoning-effort"])
    ELSE IF fromViper # <<>> THEN fromViper
    ELSE IF agentName # <<>> THEN TrimSpace(resolved.reasoning)
    ELSE <<>>

\* parseArgs and buildSingleConfig: the Config, or the error.
buildSingleConfig(argv, env, conf) ==
    LET f == ParseFlags(argv, 1, NoFlags)
        args == f.args
        Changed(n) == n \in f.changed
        Trimmed(n) == TrimSpace(f.value[n])
        Viper(key) == TrimSpace(GetString(env, conf, key))
        agentName == IF Changed("agent") THEN Trimmed("agent") ELSE Viper("agent")
        agentErr ==
            IF Changed("agent") /\ agentName = <<>> THEN "--agent flag requires a value"
            ELSE IF agentName # <<>> /\ ~ValidateAgentName(agentName)
            THEN "--agent flag invalid value"
            ELSE ""
        resolved == IF agentName # <<>> /\ agentErr = "" THEN ResolveAgentConfig(agentName)
                    ELSE NoPreset
        promptFile == IF Changed("prompt-file") THEN Trimmed("prompt-file")
                      ELSE IF Viper("prompt-file") # <<>> THEN Viper("prompt-file")
                      ELSE resolved.promptFile
        promptFileExplicit == Changed("prompt-file") \/ Viper("prompt-file") # <<>>
        resume == args # <<>> /\ args[1] = <<"r", "e", "s", "u", "m", "e">>
        workdirAt == IF resume THEN 4 ELSE 2
        err == FirstError(<<
            IF f.err THEN "flag needs an argument" ELSE "",
            agentErr,
            IF Changed("prompt-file") /\ Trimmed("prompt-file") = <<>>
               THEN "--prompt-file flag requires a value" ELSE "",
            IF Changed("backend") /\ Trimmed("backend") = <<>>
               THEN "--backend flag requires a value" ELSE "",
            IF Changed("model") /\ Trimmed("model") = <<>>
               THEN "--model flag requires a value" ELSE "",
            IF Changed("reasoning-effort") /\ Trimmed("reasoning-effort") = <<>>
               THEN "--reasoning-effort flag requires a value" ELSE "",
            IF args = <<>> THEN "task required" ELSE "",
            IF resume /\ Len(args) < 3 THEN "resume mode requires: resume <session_id> <task>"
               ELSE "",
            IF resume /\ Len(args) >= 3 /\ TrimSpace(args[2]) = <<>>
               THEN "resume mode requires non-empty session_id" ELSE "",
            IF Len(args) >= workdirAt /\ args[workdirAt] = <<"-">>
               THEN "invalid workdir" ELSE "">>)
    IN  IF err # "" THEN [err |-> err, cfg |-> NilSingleConfig]
        ELSE [err |-> "",
              cfg |-> [Mode |-> IF resume THEN "resume" ELSE "new",
                       Task |-> IF resume THEN args[3] ELSE args[1],
                       SessionID |-> IF resume THEN TrimSpace(args[2]) ELSE <<>>,
                       WorkDir |-> IF Len(args) >= workdirAt THEN args[workdirAt]
                                   ELSE defaultWorkdir,
                       Model |-> ModelOf(f, argv, agentName, resolved, Viper("model")),
                       ReasoningEffort |->
                           ReasoningOf(f, agentName, resolved, Viper("reasoning-effort")),
                       ExplicitStdin |-> (IF resume THEN args[3] ELSE args[1]) = <<"-">>,
                       Backend |-> BackendOf(f, argv, agentName, resolved, Viper("backend")),
                       Agent |-> agentName,
                       PromptFile |-> promptFile,
                       PromptFileExplicit |-> promptFileExplicit]]

\* "a" written 800 times: one element of a string that counts for 800
\* bytes. The two markers of a prompt count for their lengths.
Run800 == "a{800}"

RECURSIVE ByteLen(_)
ByteLen(s) ==
    IF s = <<>> THEN 0
    ELSE (IF Head(s) = Run800 THEN 800
          ELSE IF Head(s) = "<agent-prompt>" THEN 14
          ELSE IF Head(s) = "</agent-prompt>" THEN 15
          ELSE 1) + ByteLen(Tail(s))

stdinThreshold == 800

\* The characters of stdinSpecialChars: newline, backslash, double quote,
\* single quote, backtick, dollar. All but the first and the last are
\* written by name.
stdinSpecialChars == {"\n", "BACKSLASH", "DQUOTE", "SQUOTE", "BACKTICK", "$"}

\* A heuristic that looks at the text only.
ShouldUseStdinTextOnly(taskText, isPiped) ==
    \/ ByteLen(taskText) > stdinThreshold
    \/ \E i \in DOMAIN taskText : taskText[i] \in stdinSpecialChars

ShouldUseStdin(taskText, isPiped) ==
    \/ isPiped
    \/ ByteLen(taskText) > stdinThreshold
    \/ \E i \in DOMAIN taskText : taskText[i] \in stdinSpecialChars

\* strings.TrimRight(data, "\r\n")
RECURSIVE TrimRightCRLF(_)
TrimRightCRLF(s) ==
    IF s # <<>> /\ s[Len(s)] \in {"\r", "\n"}
    THEN TrimRightCRLF(SubSeq(s, 1, Len(s) - 1)) ELSE s

WrapTaskWithAgentPrompt(prompt, task) ==
    <<"<agent-prompt>", "\n">> \o prompt \o <<"\n", "</agent-prompt>", "\n", "\n">> \o task

\* What readAgentPromptFile answers: an error, or the file's content with
\* the trailing line ends cut.
PromptFileContents == {<<"P", "\n">>, <<"P", "\n", "Q", "\r", "\n", "\n">>, <<>>}

\* The read of a prompt file fails, or gives the bytes of the file.
NoPrompt == [err |-> FALSE, data |-> <<>>]

PromptOutcomes ==
    {[err |-> TRUE, data |-> <<>>]} \cup {[err |-> FALSE, data |-> d] : d \in PromptFileContents}

NoSource == [n \in FlagNames |-> <<>>]

SingleIdle ==
    /\ spc = "none"
    /\ rawArgv = <<>>
    /\ osEnv = NoSource
    /\ confFile = NoSource
    /\ singleCfg = NilSingleConfig
    /\ cfgErr = ""
    /\ backendName = ""
    /\ isTerminal = TRUE
    /\ stdinData = <<>>
    /\ piped = FALSE
    /\ promptOut = NoPrompt
    /\ singleTask = <<>>
    /\ useStdin = FALSE
    /\ singleTarget = <<>>
    /\ codexArgs = NoArgs
    /\ singleExit = -1

SingleInit ==
    /\ spc = "start"
    /\ rawArgv = <<>>
    /\ osEnv = NoSource
    /\ confFile = NoSource
    /\ singleCfg = NilSingleConfig
    /\ cfgErr = ""
    /\ backendName = ""
    /\ isTerminal = TRUE
    /\ stdinData = <<>>
    /\ piped = FALSE
    /\ promptOut = NoPrompt
    /\ singleTask = <<>>
    /\ useStdin = FALSE
    /\ singleTarget = <<>>
    /\ codexArgs = NoArgs
    /\ singleExit = -1

\* The process starts with its command line, its environment and its
\* config file; an error of buildSingleConfig ends it with exit code 1.
BuildSingleConfig(argv, e, c) ==
    /\ spc = "start"
    /\ rawArgv' = argv
    /\ osEnv' = e
    /\ confFile' = c
    /\ LET r == buildSingleConfig(argv, e, c) IN
       /\ singleCfg' = r.cfg
       /\ cfgErr' = r.err
       /\ spc' = IF r.err # "" THEN "exit" ELSE "config"
       /\ singleExit' = IF r.err # "" THEN 1 ELSE singleExit
    /\ UNCHANGED <<backendName, isTerminal, stdinData, piped, promptOut, singleTask, useStdin,
                   singleTarget, codexArgs>>
    /\ UNCHANGED nonSingleVars

\* runSingleMode up to the task text: the backend is selected and the task
\* is read from stdin when it is "-" or when stdin is a pipe that holds
\* data. tty: stdin is a terminal; data: what a read of stdin gives;
\* readFails: the read fails.
ReadTask(tty, data, readFails) ==
    /\ spc = "config"
    /\ isTerminal' = tty
    /\ stdinData' = data
    /\ LET stdinRead == singleCfg.ExplicitStdin \/ ~tty
           fail == \/ Select(singleCfg.Backend) = ""
                   \/ stdinRead /\ readFails
                   \/ singleCfg.ExplicitStdin /\ data = <<>>
           pipedTask == IF tty THEN <<>> ELSE data
       IN  /\ backendName' = Select(singleCfg.Backend)
           /\ spc' = IF fail THEN "exit" ELSE "task"
           /\ singleExit' = IF fail THEN 1 ELSE singleExit
           /\ piped' = IF fail THEN piped
                       ELSE IF singleCfg.ExplicitStdin THEN ~tty
                       ELSE pipedTask # <<>>
           /\ singleTask' = IF fail THEN singleTask
                          ELSE IF singleCfg.ExplicitStdin THEN data
                          ELSE IF pipedTask # <<>> THEN pipedTask
                          ELSE singleCfg.Task
    /\ UNCHANGED <<rawArgv, osEnv, confFile, singleCfg, cfgErr, promptOut, useStdin,
                   singleTarget, codexArgs>>
    /\ UNCHANGED nonSingleVars

\* A task text that the prompt file does not change.
PromptIgnored(out, text) == text

\* if strings.TrimSpace(cfg.PromptFile) != "": the text after the prompt
\* file was read with outcome out.
PromptApplied(out, text) ==
    IF TrimSpace(singleCfg.PromptFile) = <<>> THEN text
    ELSE WrapTaskWithAgentPrompt(TrimRightCRLF(out.data), text)

\* The prompt file, if there is one, is read and put before the task; a
\* failure ends the run with exit code 1.
ReadPrompt(out) ==
    /\ spc = "task"
    /\ LET fail == TrimSpace(singleCfg.PromptFile) # <<>> /\ out.err IN
       /\ spc' = IF fail THEN "exit" ELSE "prompt"
       /\ singleExit' = IF fail THEN 1 ELSE singleExit
       /\ promptOut' = IF TrimSpace(singleCfg.PromptFile) # <<>> THEN out ELSE promptOut
       /\ singleTask' = IF fail THEN singleTask ELSE PromptApplied(out, singleTask)
    /\ UNCHANGED <<rawArgv, osEnv, confFile, singleCfg, cfgErr, backendName, isTerminal,
                   stdinData, piped, useStdin, singleTarget, codexArgs>>
    /\ UNCHANGED nonSingleVars

\* The stdin decision, the target argument and the argv of the backend;
\* the child is launched.
Launch ==
    /\ spc = "prompt"
    /\ useStdin' = (singleCfg.ExplicitStdin \/ ShouldUseStdin(singleTask, piped))
    /\ singleTarget' = IF useStdin' THEN <<"-">> ELSE singleTask
    /\ codexArgs' = BuildArgs(backendName, singleCfg, singleTarget')
    /\ spc' = "running"
    /\ UNCHANGED <<rawArgv, osEnv, confFile, singleCfg, cfgErr, backendName, isTerminal,
                   stdinData, piped, promptOut, singleTask, singleExit>>
    /\ UNCHANGED nonSingleVars

\* runTaskFn returns and its exit code is that of the run.
SingleReturn(code) ==
    /\ spc = "running"
    /\ singleExit' = code
    /\ spc' = "exit"
    /\ UNCHANGED <<rawArgv, osEnv, confFile, singleCfg, cfgErr, backendName, isTerminal,
                   stdinData, piped, promptOut, singleTask, useStdin, singleTarget, codexArgs>>
    /\ UNCHANGED nonSingleVars

\* The command lines of the model.
Opt(present, tokens) == IF present THEN tokens ELSE <<>>

TaskWord == Word(<<"t">>)

ResumeWord == Word(<<"r", "e", "s", "u", "m", "e">>)

\* Every choice of flags, with --agent before them, after them or absent.
FlagArgvs ==
    {Opt(a = "first", <<Flag("agent"), Word(<<"p">>)>>)
        \o Opt(bk, <<Flag("backend"), Word(<<"l">>)>>)
        \o Opt(md, <<FlagEq("model", <<"n">>)>>)
        \o Opt(re, <<FlagEq("reasoning-effort", <<"r">>)>>)
        \o Opt(pf, <<FlagEq("prompt-file", <<" ", "f">>)>>)
        \o Opt(a = "last", <<FlagEq("agent", <<"p">>)>>)
        \o <<TaskWord>> :
            a \in {"none", "first", "last"}, bk \in BOOLEAN, md \in BOOLEAN,
            re \in BOOLEAN, pf \in BOOLEAN}

\* Flags given twice, a flag name in the place of a value or of the task,
\* and the command lines buildSingleConfig refuses.
OddArgvs ==
    {<<FlagEq("backend", <<"l">>), FlagEq("agent", <<"p">>), FlagEq("backend", <<"o">>),
       TaskWord>>,
     <<FlagEq("agent", <<"q">>), FlagEq("model", <<"n">>), FlagEq("agent", <<"p">>),
       FlagEq("model", <<"k">>), TaskWord>>,
     <<FlagEq("model", <<"n">>), FlagEq("agent", <<"z">>), TaskWord>>,
     <<Flag("agent"), Word(<<"p">>), Flag("backend"), Flag("agent"), TaskWord>>,
     <<FlagEq("agent", <<"p">>), FlagEq("backend", <<"l">>), DashDash, Flag("agent")>>,
     <<TaskWord, Flag("agent")>>,
     <<Flag("agent"), Word(<<" ">>), TaskWord>>,
     <<FlagEq("agent", <<"a", "/">>), TaskWord>>,
     <<FlagEq("backend", <<" ">>), TaskWord>>,
     <<FlagEq("model", <<>>), TaskWord>>,
     <<FlagEq("reasoning-effort", <<>>), TaskWord>>,
     <<FlagEq("prompt-file", <<>>), TaskWord>>,
     <<FlagEq("backend", <<"l">>)>>,
     <<ResumeWord, Word(<<"s">>)>>,
     <<ResumeWord, Word(<<" ">>), TaskWord>>,
     <<ResumeWord, Word(<<"s">>), TaskWord, Word(<<"-">>)>>,
     <<TaskWord, Word(<<"-">>)>>,
     <<TaskWord, Word(<<"w">>)>>}

\* The environment and the config file set at most two of the keys; the
\* agents they name are q and y.
Sources(value, agent) ==
    {[n \in FlagNames |-> IF n \notin S THEN <<>> ELSE IF n = "agent" THEN agent ELSE value] :
        S \in {S \in SUBSET FlagNames : Cardinality(S) <= 2}}

ConfigNext ==
    \E argv \in FlagArgvs \cup OddArgvs :
       \E e \in Sources(<<"e">>, <<"q">>) : \E c \in Sources(<<"k">>, <<"y">>) :
          BuildSingleConfig(argv, e, c)

\* The task texts of the model: plain, "-", 800 and 801 bytes long, and
\* one with each of the special characters.
TaskTexts ==
    {<<"t">>, <<"-">>, <<Run800>>, <<Run800, "a">>}
        \cup {<<"t", c>> : c \in stdinSpecialChars}

TaskArgvs ==
    {Opt(pf, <<FlagEq("prompt-file", <<"f">>)>>)
        \o Opt(rs, <<ResumeWord, Word(<<"s">>)>>)
        \o <<Word(text)>> :
            pf \in BOOLEAN, rs \in BOOLEAN, text \in TaskTexts}
        \cup {<<FlagEq("backend", <<"z">>), TaskWord>>,
              <<FlagEq("backend", <<"g">>), ResumeWord, Word(<<" ">>), TaskWord>>,
              <<FlagEq("backend", <<"l">>), ResumeWord, Word(<<"s">>), TaskWord>>,
              <<FlagEq("backend", <<"o">>), TaskWord>>}

StdinData == {<<>>, <<"i">>}

SingleNext ==
    \/ \E argv \in TaskArgvs : BuildSingleConfig(argv, NoSource, NoSource)
    \/ \E tty \in BOOLEAN : \E data \in StdinData : \E readFails \in BOOLEAN :
          ReadTask(tty, data, readFails)
    \/ \E out \in PromptOutcomes : ReadPrompt(out)
    \/ Launch
    \/ \E code \in 0 .. MaxExit : SingleReturn(code)

(***************************************************************************)
(* The prompt file (executor/prompt.go). A path is the sequence of its     *)
(* components below the root; the path handed to ReadAgentPromptFile is    *)
(* blank, or begins with the home directory ("~" or "~/..."), or is        *)
(* absolute, or is relative to the working directory. A file system gives  *)
(* the symbolic links and the regular files by their paths, and says       *)
(* whether os.UserHomeDir fails.                                           *)
(***************************************************************************)
Home == <<"h">>

Cwd == <<"h", "w">>

RawPath(kind, comps) == [kind |-> kind, comps |-> comps]

\* filepath.Clean of an absolute path: ".." takes the component before it
\* away, and stays at the root.
RECURSIVE Clean(_, _)
Clean(done, rest) ==
    IF rest = <<>> THEN done
    ELSE IF Head(rest) = ".."
    THEN Clean(IF done = <<>> THEN <<>> ELSE SubSeq(done, 1, Len(done) - 1), Tail(rest))
    ELSE Clean(Append(done, Head(rest)), Tail(rest))

\* The closure isWithinDir over cleaned absolute paths: filepath.Rel(dir,
\* path) does not begin with "..", that is, dir is path or an ancestor.
isWithinDir(path, dir) ==
    /\ Len(dir) <= Len(path)
    /\ SubSeq(path, 1, Len(dir)) = dir

allowedDirs == <<Home \o <<".claude">>, Home \o <<".codeagent", "agents">>>>

\* Something lies at path p: a link, a file, or a directory above one.
Exists(fs, p) ==
    \/ p \in DOMAIN fs.links
    \/ p \in DOMAIN fs.files
    \/ \E q \in DOMAIN fs.files \cup DOMAIN fs.links : Len(q) > Len(p) /\ isWithinDir(q, p)

MaxLinks == 3

\* filepath.EvalSymlinks: the path with every link followed, or a failure
\* when a component does not exist or the links do not end.
RECURSIVE EvalSymlinks(_, _, _, _)
EvalSymlinks(fs, done, rest, fuel) ==
    IF rest = <<>> THEN [ok |-> TRUE, path |-> done]
    ELSE LET nxt == Append(done, Head(rest)) IN
         IF nxt \in DOMAIN fs.links
         THEN IF fuel = 0 THEN [ok |-> FALSE, path |-> <<>>]
              ELSE EvalSymlinks(fs, <<>>, fs.links[nxt] \o Tail(rest), fuel - 1)
         ELSE IF Exists(fs, nxt) THEN EvalSymlinks(fs, nxt, Tail(rest), fuel)
         ELSE [ok |-> FALSE, path |-> <<>>]

\* os.ReadFile: the bytes of the regular file the path leads to.
ReadFile(fs, absPath) ==
    LET r == EvalSymlinks(fs, <<>>, absPath, MaxLinks) IN
    IF r.ok /\ r.path \in DOMAIN fs.files
    THEN [err |-> FALSE, data |-> fs.files[r.path]]
    ELSE [err |-> TRUE, data |-> <<>>]

\* A second check that lets every path through.
WithinResolvedSkipped(fs, absPath) == TRUE

\* The second check of ReadAgentPromptFile: when the links of absPath can
\* be followed, the result has to lie within one of the allowed
\* directories with their links followed; the directories whose links
\* cannot be followed are left out, and with none left the check passes.
WithinResolved(fs, absPath) ==
    LET resolvedPath == EvalSymlinks(fs, <<>>, absPath, MaxLinks)
        resolvedAllowed ==
            {EvalSymlinks(fs, <<>>, allowedDirs[i], MaxLinks).path :
                i \in {j \in DOMAIN allowedDirs :
                          EvalSymlinks(fs, <<>>, allowedDirs[j], MaxLinks).ok}}
    IN  resolvedPath.ok /\ resolvedAllowed # {}
            => \E dir \in resolvedAllowed : isWithinDir(resolvedPath.path, dir)

PromptReturn(data, err, read, warned) ==
    [data |-> data, err |-> err, read |-> read, warned |-> warned]

\* ReadAgentPromptFile: data and err are what it returns; read says that
\* os.ReadFile was called; warned is the warning it logged, "" for none.
ReadAgentPromptFile(path, allowOutsideClaudeDir, fs) ==
    IF path.kind = "blank" THEN PromptReturn(<<>>, FALSE, FALSE, "")
    ELSE IF path.kind = "tilde" /\ fs.homeErr THEN PromptReturn(<<>>, TRUE, FALSE, "")
    ELSE LET expanded == IF path.kind = "tilde" THEN Home \o path.comps
                         ELSE IF path.kind = "rel" THEN Cwd \o path.comps
                         ELSE path.comps
             absPath == Clean(<<>>, expanded)
             withinAllowed == \E i \in DOMAIN allowedDirs : isWithinDir(absPath, allowedDirs[i])
             file == ReadFile(fs, absPath)
             Read(warned) ==
                 PromptReturn(IF file.err THEN <<>> ELSE TrimRightCRLF(file.data),
                              file.err, TRUE, warned)
         IN  IF fs.homeErr
             THEN IF ~allowOutsideClaudeDir THEN PromptReturn(<<>>, TRUE, FALSE, "")
                  ELSE Read("home")
             ELSE IF ~allowOutsideClaudeDir
             THEN IF ~withinAllowed THEN PromptReturn(<<>>, TRUE, FALSE, "refusing")
                  ELSE IF ~WithinResolved(fs, absPath)
                  THEN PromptReturn(<<>>, TRUE, FALSE, "refusing (resolved)")
                  ELSE Read("")
             ELSE Read(IF withinAllowed THEN "" ELSE "reading outside")

\* The file systems of the model. Plain: no links. Linked: links inside
\* .claude that lead to a directory and to a file outside, one whose
\* target is missing, and one that stays inside. LinkedBase: .claude is
\* itself a link to a directory elsewhere, in which a link leads out.
PlainFiles ==
    (Home \o <<".claude", "f">> :> <<"A", "\n">>)
        @@ (Home \o <<".codeagent", "agents", "f">> :> <<"B", "\r", "\n">>)
        @@ (Home \o <<".claudex", "f">> :> <<"X">>)
        @@ (Home \o <<"x", "f">> :> <<"S">>)
        @@ (Cwd \o <<"f">> :> <<"W">>)

NoLinks == [p \in {} |-> <<>>]

FileSystems ==
    {[homeErr |-> e, links |-> l, files |-> f] :
        e \in BOOLEAN,
        l \in {NoLinks,
               (Home \o <<".claude", "out">> :> Home \o <<"x">>)
                   @@ (Home \o <<".claude", "lf">> :> Home \o <<"x", "f">>)
                   @@ (Home \o <<".claude", "dang">> :> Home \o <<"nowhere">>)
                   @@ (Home \o <<".claude", "in">> :> Home \o <<".codeagent", "agents", "f">>)},
        f \in {PlainFiles}}
        \cup
    {[homeErr |-> e,
      links |-> (Home \o <<".claude">> :> <<"d", "c">>)
                   @@ (<<"d", "c", "out">> :> Home \o <<"x">>),
      files |-> (<<"d", "c", "f">> :> <<"A", "\n">>) @@ (Home \o <<"x", "f">> :> <<"S">>)] :
        e \in BOOLEAN}

PromptPaths ==
    {RawPath("blank", <<>>), RawPath("tilde", <<>>)}
        \cup {RawPath("tilde", c) :
                c \in {<<".claude", "f">>, <<".claude", "..", "x", "f">>,
                       <<".claude", "out", "f">>, <<".claude", "lf">>, <<".claude", "dang">>,
                       <<".claude", "in">>, <<".claude", "nofile">>, <<".claude">>,
                       <<".codeagent", "agents", "f">>, <<".codeagent", "f">>,
                       <<".claudex", "f">>, <<"x", "f">>}}
        \cup {RawPath("abs", c) :
                c \in {<<"h", ".claude", "f">>, <<"h", "x", "f">>, <<"d", "c", "f">>,
                       <<"h", "x", "..", ".claude", "f">>, <<"..", "h", ".claude", "f">>}}
        \cup {RawPath("rel", c) : c \in {<<"f">>, <<"..", ".claude", "f">>}}

NoCall == [path |-> RawPath("blank", <<>>), allowOutsideClaudeDir |-> FALSE,
           fs |-> [homeErr |-> FALSE, links |-> NoLinks, files |-> NoLinks]]

PromptIdle ==
    /\ fpc = "none"
    /\ promptCall = NoCall
    /\ promptRet = PromptReturn(<<>>, FALSE, FALSE, "")

PromptInit ==
    /\ fpc = "start"
    /\ promptCall = NoCall
    /\ promptRet = PromptReturn(<<>>, FALSE, FALSE, "")

\* One call of ReadAgentPromptFile over a file system.
CallReadAgentPromptFile(path, allowOutsideClaudeDir, fs) ==
    /\ fpc = "start"
    /\ promptCall' = [path |-> path, allowOutsideClaudeDir |-> allowOutsideClaudeDir,
                      fs |-> fs]
    /\ promptRet' = ReadAgentPromptFile(path, allowOutsideClaudeDir, fs)
    /\ fpc' = "done"
    /\ UNCHANGED nonPromptVars

PromptNext ==
    \E path \in PromptPaths : \E allow \in BOOLEAN : \E fs \in FileSystems :
       CallReadAgentPromptFile(path, allow, fs)

(***************************************************************************)
(* The wrapper's own log file: the Logger and runWithLoggerAndCleanup      *)
(***************************************************************************)

\* The most log calls the wrapped function makes.
MaxLogs == 4

\* The largest n asked of ExtractRecentErrors by a caller of the model.
MaxAsk == 4

Levels == {"DEBUG", "INFO", "WARN", "ERROR"}

\* The number of entries the recent-error cache holds (100), scaled to the
\* model's runs.
maxErrorEntries == 2

\* The number of recent errors the wrapper asks for on a failed run.
recentErrorsShown == 10

\* The last k elements of a sequence.
LastOf(s, k) ==
    IF Len(s) <= k THEN s ELSE SubSeq(s, Len(s) - k + 1, Len(s))

\* The message of the i-th log call: the messages of a run are all different.
MessageAt(i) == i

\* A cache that also keeps the INFO messages.
RememberInfoToo(cache, level, msg) ==
    IF level \in {"INFO", "WARN", "ERROR"}
      THEN LastOf(Append(cache, msg), maxErrorEntries)
      ELSE cache

\* Logger.log: a WARN or ERROR message enters the recent-error cache, and
\* the oldest entry leaves a full cache.
Remember(cache, level, msg) ==
    IF level \in {"WARN", "ERROR"}
      THEN LastOf(Append(cache, msg), maxErrorEntries)
      ELSE cache

ExtractResult(isNil, entries) == [isNil |-> isNil, entries |-> entries]

\* Logger.ExtractRecentErrors(maxEntries) on a receiver that is nil or the
\* logger with the given cache.
ExtractRecentErrors(recv, cache, maxEntries) ==
    IF recv = "nil" \/ maxEntries <= 0 \/ Len(cache) = 0
      THEN ExtractResult(TRUE, <<>>)
      ELSE ExtractResult(FALSE, LastOf(cache, maxEntries))

StderrLine(kind, msg) == [kind |-> kind, msg |-> msg]

NoExtract == [recv |-> "nil", n |-> 0]

LifeIdle ==
    /\ kpc = "none"
    /\ logFile = "absent"
    /\ loggerPtr = "nil"
    /\ logged = <<>>
    /\ errorEntries = <<>>
    /\ runExit = -1
    /\ stderrOut = <<>>
    /\ extractCall = NoExtract
    /\ extractRet = ExtractResult(TRUE, <<>>)

LifeInit ==
    /\ kpc = "start"
    /\ logFile = "absent"
    /\ loggerPtr = "nil"
    /\ logged = <<>>
    /\ errorEntries = <<>>
    /\ runExit = -1
    /\ stderrOut = <<>>
    /\ extractCall = NoExtract
    /\ extractRet = ExtractResult(TRUE, <<>>)

\* NewLogger and setLogger at the head of runWithLoggerAndCleanup: a failure
\* to create the logger ends the run with exit code 1.
NewLoggerCall(fails) ==
    /\ kpc = "start"
    /\ IF fails
         THEN /\ stderrOut' = <<StderrLine("init-failed", 0)>>
              /\ runExit' = 1
              /\ kpc' = "done"
              /\ UNCHANGED <<logFile, loggerPtr>>
         ELSE /\ logFile' = "present"
              /\ loggerPtr' = "logger"
              /\ kpc' = "fn"
              /\ UNCHANGED <<stderrOut, runExit>>
    /\ UNCHANGED <<logged, errorEntries, extractCall, extractRet>>
    /\ UNCHANGED nonLifeVars

\* The wrapped function logs one message at a level.
LogCall(level) ==
    /\ kpc = "fn"
    /\ Len(logged) < MaxLogs
    /\ logged' = Append(logged, level)
    /\ errorEntries' = Remember(errorEntries, level, MessageAt(Len(logged) + 1))
    /\ UNCHANGED <<kpc, logFile, loggerPtr, runExit, stderrOut, extractCall, extractRet>>
    /\ UNCHANGED nonLifeVars

\* A call of ExtractRecentErrors(n) on the logger or on a nil *Logger.
ExtractCall(recv, n) ==
    /\ kpc = "fn"
    /\ extractCall' = [recv |-> recv, n |-> n]
    /\ extractRet' = ExtractRecentErrors(recv, errorEntries, n)
    /\ UNCHANGED <<kpc, logFile, loggerPtr, logged, errorEntries, runExit, stderrOut>>
    /\ UNCHANGED nonLifeVars

\* fn returns the exit code of the run.
FnReturn(code) ==
    /\ kpc = "fn"
    /\ runExit' = code
    /\ kpc' = "deferred"
    /\ UNCHANGED <<logFile, loggerPtr, logged, errorEntries, stderrOut, extractCall,
                   extractRet>>
    /\ UNCHANGED nonLifeVars

\* The head of the deferred function: the active logger is flushed and
\* closed. Logger.Close leaves the file where it is.
DeferredClose ==
    /\ kpc = "deferred"
    /\ loggerPtr' = "nil"
    /\ kpc' = IF loggerPtr = "nil" THEN "done" ELSE "closed"
    /\ UNCHANGED <<logFile, logged, errorEntries, runExit, stderrOut, extractCall,
                   extractRet>>
    /\ UNCHANGED nonLifeVars

\* The lines the deferred function prints for a run that ended with the
\* given exit code.
RecentErrorsReport(code, cache) ==
    LET got == ExtractRecentErrors("logger", cache, recentErrorsShown)
    IN  IF code # 0 /\ Len(got.entries) > 0
          THEN <<StderrLine("recent-errors", 0)>>
               \o [i \in 1 .. Len(got.entries) |-> StderrLine("entry", got.entries[i])]
               \o <<StderrLine("log-file-deleted", 0)>>
          ELSE <<>>

\* The rest of the deferred function: the recent errors of a failed run are
\* printed with the path of the log file, and the log file is removed; the
\* error of the removal is dropped.
DeferredReport(removeFails) ==
    /\ kpc = "closed"
    /\ stderrOut' = stderrOut \o RecentErrorsReport(runExit, errorEntries)
    /\ logFile' = IF removeFails THEN logFile ELSE "removed"
    /\ kpc' = "done"
    /\ UNCHANGED <<loggerPtr, logged, errorEntries, runExit, extractCall, extractRet>>
    /\ UNCHANGED nonLifeVars

LifeNext ==
    \/ \E fails \in BOOLEAN : NewLoggerCall(fails)
    \/ \E level \in Levels : LogCall(level)
    \/ \E recv \in {"nil", "logger"} : \E n \in -1 .. MaxAsk : ExtractCall(recv, n)
    \/ \E code \in 0 .. MaxExit : FnReturn(code)
    \/ DeferredClose
    \/ \E removeFails \in BOOLEAN : DeferredReport(removeFails)

(***************************************************************************)
(* The Logger under concurrent writers                                     *)
(***************************************************************************)

\* The number of goroutines that log (10 in the test of the concurrent
\* writes), scaled.
goroutines == 2

\* The most messages each goroutine logs.
MaxPerWriter == 2

\* The most calls of Flush.
MaxFlushes == 2

Writers == 1 .. goroutines

\* The j-th message of goroutine g.
LogEntry(g, j) == [g |-> g, j |-> j]

\* The messages logged so far.
LoggedSoFar == {e \in [g : Writers, j : 1 .. MaxPerWriter] : e.j <= sentCount[e.g]}

WriterIdle ==
    /\ logCh = <<>>
    /\ writerBuf = <<>>
    /\ fileLines = <<>>
    /\ sentCount = [g \in Writers |-> 0]
    /\ flushPc = "none"
    /\ beforeFlush = [calls |-> 0, entries |-> {}]

WriterInit ==
    /\ logCh = <<>>
    /\ writerBuf = <<>>
    /\ fileLines = <<>>
    /\ sentCount = [g \in Writers |-> 0]
    /\ flushPc = "idle"
    /\ beforeFlush = [calls |-> 0, entries |-> {}]

\* Logger.log in goroutine g: the entry is sent on the logger's channel.
LoggerLog(g) ==
    /\ flushPc # "none"
    /\ sentCount[g] < MaxPerWriter
    /\ sentCount' = [sentCount EXCEPT ![g] = @ + 1]
    /\ logCh' = Append(logCh, LogEntry(g, sentCount[g] + 1))
    /\ UNCHANGED <<writerBuf, fileLines, flushPc, beforeFlush>>
    /\ UNCHANGED nonWriterVars

\* The worker goroutine takes the next entry from the channel and writes it,
\* as one line, to its buffered writer.
WorkerWrite ==
    /\ flushPc # "none"
    /\ logCh # <<>>
    /\ writerBuf' = Append(writerBuf, Head(logCh))
    /\ logCh' = Tail(logCh)
    /\ UNCHANGED <<fileLines, sentCount, flushPc, beforeFlush>>
    /\ UNCHANGED nonWriterVars

\* The worker's periodic flush: the buffered lines reach the file.
WorkerTick ==
    /\ flushPc # "none"
    /\ writerBuf # <<>>
    /\ fileLines' = fileLines \o writerBuf
    /\ writerBuf' = <<>>
    /\ UNCHANGED <<logCh, sentCount, flushPc, beforeFlush>>
    /\ UNCHANGED nonWriterVars

\* Logger.Flush is called.
FlushCall ==
    /\ flushPc \in {"idle", "returned"}
    /\ beforeFlush.calls < MaxFlushes
    /\ flushPc' = "waiting"
    /\ beforeFlush' = [calls |-> beforeFlush.calls + 1, entries |-> LoggedSoFar]
    /\ UNCHANGED <<logCh, writerBuf, fileLines, sentCount>>
    /\ UNCHANGED nonWriterVars

\* A Flush that does not wait for the pending entries.
FlushWaitSkipped ==
    /\ flushPc = "waiting"
    /\ flushPc' = "requested"
    /\ UNCHANGED <<logCh, writerBuf, fileLines, sentCount, beforeFlush>>
    /\ UNCHANGED nonWriterVars

\* Flush waits until the worker has written every pending entry, and then
\* asks the worker to flush.
FlushWait ==
    /\ flushPc = "waiting"
    /\ logCh = <<>>
    /\ flushPc' = "requested"
    /\ UNCHANGED <<logCh, writerBuf, fileLines, sentCount, beforeFlush>>
    /\ UNCHANGED nonWriterVars

\* The worker serves the flush request: the buffered lines reach the file,
\* and Flush returns.
WorkerFlush ==
    /\ flushPc = "requested"
    /\ fileLines' = fileLines \o writerBuf
    /\ writerBuf' = <<>>
    /\ flushPc' = "returned"
    /\ UNCHANGED <<logCh, sentCount, beforeFlush>>
    /\ UNCHANGED nonWriterVars

WriterNext ==
    \/ \E g \in Writers : LoggerLog(g)
    \/ WorkerWrite
    \/ WorkerTick
    \/ FlushCall
    \/ FlushWait
    \/ WorkerFlush

(***************************************************************************)
(* The /do stop hook (skills/do/hooks/stop-hook.sh)                        *)
(***************************************************************************)

\* The most lines of a stdin payload and of a state file's body.
MaxHookLines == 1

\* The phase the hook assumes when current_phase is not a number, and the
\* number of phases it assumes when max_phases is not a number.
defaultCurrentPhase == 1

defaultMaxPhases == 7

defaultPromise == "<promise>DO_COMPLETE</promise>"

\* A frontmatter value that should be a number: a run of digits or not.
RawNumber(isDigits, val) == [isDigits |-> isDigits, val |-> val]

PhaseRaws == {RawNumber(FALSE, 0)} \cup {RawNumber(TRUE, v) : v \in {1, 7, 8}}

ActiveRaws == {"", "true", "TRUE", "Yes", "on", "1", "false", "0"}

\* tr '[:upper:]' '[:lower:]' over the values of the model.
ToLower(v) ==
    CASE v = "TRUE" -> "true"
      [] v = "Yes" -> "yes"
      [] OTHER -> v

PromiseRaws == {"", "DONE", defaultPromise}

\* A line of text holds one of these and nothing else.
HookWords == {"DONE", defaultPromise, "other"}

\* A text that is piped to grep: its lines, and whether more text follows
\* its first line than the pipe holds.
HookText(lines, overPipe) == [lines |-> lines, overPipe |-> overPipe]

HookTexts ==
    {HookText(<<>>, FALSE)} \cup
    {HookText(l, o) : l \in UNION {[1 .. k -> HookWords] : k \in 1 .. MaxHookLines},
                      o \in BOOLEAN}

StateFile(exists, active, curRaw, maxRaw, promise, body) ==
    [exists |-> exists, active |-> active, current_phase |-> curRaw,
     max_phases |-> maxRaw,
     completion_promise |-> promise, body |-> body]

\* grep -Fq: some line holds the pattern.
GrepFq(text, pattern) == \E i \in 1 .. Len(text.lines) : text.lines[i] = pattern

\* [ -n text ] && printf "%s" text | grep -Fq -- pattern under "set -o
\* pipefail": grep leaves at its first match, and a printf that still has
\* text to write to the pipe is ended by SIGPIPE, which fails the pipeline.
Pipeline(text, pattern, sigpipe) ==
    /\ Len(text.lines) > 0
    /\ GrepFq(text, pattern)
    /\ ~(text.overPipe /\ sigpipe)

HookOutput(printed, status) == [stdout |-> printed, status |-> status]

\* The hook over a state file and a stdin payload; sigpipeIn and sigpipeBody
\* say whether the writer of an over-long text is cut off.
StopHook(file, payload, sigpipeIn, sigpipeBody) ==
    IF ~file.exists THEN HookOutput("", 0)
    ELSE IF ToLower(file.active) \notin {"true", "1", "yes", "on"} THEN HookOutput("", 0)
    ELSE
      LET current_phase == IF file.current_phase.isDigits
                             THEN file.current_phase.val ELSE defaultCurrentPhase
          max_phases    == IF file.max_phases.isDigits
                             THEN file.max_phases.val ELSE defaultMaxPhases
          completion_promise == IF file.completion_promise = ""
                                  THEN defaultPromise ELSE file.completion_promise
          phases_done   == current_phase >= max_phases
          promise_met   == \/ Pipeline(payload, completion_promise, sigpipeIn)
                           \/ Pipeline(file.body, completion_promise, sigpipeBody)
      IN  IF phases_done /\ promise_met THEN HookOutput("", 0)
          ELSE IF ~phases_done THEN HookOutput("block: incomplete", 0)
          ELSE HookOutput("block: promise not detected", 0)

NoHookInput ==
    [file |-> StateFile(FALSE, "", RawNumber(FALSE, 0), RawNumber(FALSE, 0), "",
                        HookText(<<>>, FALSE)),
     payload |-> HookText(<<>>, FALSE), sigpipeIn |-> FALSE, sigpipeBody |-> FALSE]

HookIdle ==
    /\ hpc = "none"
    /\ hookIn = NoHookInput
    /\ hookOut = HookOutput("", 0)

HookInit ==
    /\ hpc = "start"
    /\ hookIn = NoHookInput
    /\ hookOut = HookOutput("", 0)

\* The state file is there, as setup-do.sh or a later edit left it, or there
\* is none.
WriteStateFile(file) ==
    /\ hpc = "start"
    /\ hookIn' = [hookIn EXCEPT !.file = file]
    /\ hpc' = "ready"
    /\ UNCHANGED hookOut
    /\ UNCHANGED nonHookVars

\* One run of the hook. A cut-off writer is an outcome only of a text that
\* is longer than the pipe holds.
RunStopHook(payload, sigpipeIn, sigpipeBody) ==
    /\ hpc = "ready"
    /\ sigpipeIn => payload.overPipe
    /\ sigpipeBody => hookIn.file.body.overPipe
    /\ hookIn' = [hookIn EXCEPT !.payload = payload, !.sigpipeIn = sigpipeIn,
                                !.sigpipeBody = sigpipeBody]
    /\ hookOut' = StopHook(hookIn.file, payload, sigpipeIn, sigpipeBody)
    /\ hpc' = "done"
    /\ UNCHANGED nonHookVars

StateFiles ==
    {NoHookInput.file} \cup
    {StateFile(TRUE, active, curRaw, maxRaw, promise, body) :
        active \in ActiveRaws, curRaw \in PhaseRaws, maxRaw \in PhaseRaws,
        promise \in PromiseRaws, body \in HookTexts}

HookNext ==
    \/ \E file \in StateFiles : WriteStateFile(file)
    \/ \E payload \in HookTexts : \E sigpipeIn \in BOOLEAN : \E sigpipeBody \in BOOLEAN :
          RunStopHook(payload, sigpipeIn, sigpipeBody)

(***************************************************************************)
(* The agent-preset config: modelsConfig (config/agent.go)                 *)
(***************************************************************************)

\* The number of goroutines that resolve presets, the most calls each
\* makes, the most changes of models.json and the most resets.
MaxResolvers == 2

MaxCalls == 2

MaxEdits == 1

MaxResets == 1

Resolvers == 1 .. MaxResolvers

FreshOnce == [done |-> FALSE, locked |-> FALSE]

\* A *ModelsConfig: nil, or the config made of a version of the file;
\* version -1 stands for &defaultModelsConfig.
ConfigPtr(isNil, version) == [isNil |-> isNil, version |-> version]

\* loadModelsConfig: the config of the file as it is on disk now.
loadModelsConfig == ConfigPtr(FALSE, modelsFile)

ModelsIdle ==
    /\ modelsConfigOnce = FreshOnce
    /\ modelsConfigCached = ConfigPtr(TRUE, 0)
    /\ modelsFile = 0
    /\ resolverPc = [g \in Resolvers |-> "none"]
    /\ callsMade = [g \in Resolvers |-> 0]
    /\ seenConfigs = {}
    /\ loadCount = 0
    /\ resetCount = 0

ModelsInit ==
    /\ modelsConfigOnce = FreshOnce
    /\ modelsConfigCached = ConfigPtr(TRUE, 0)
    /\ modelsFile = 0
    /\ resolverPc = [g \in Resolvers |-> "idle"]
    /\ callsMade = [g \in Resolvers |-> 0]
    /\ seenConfigs = {}
    /\ loadCount = 0
    /\ resetCount = 0

\* A goroutine resolves a preset: it calls modelsConfig.
CallModelsConfig(g) ==
    /\ resolverPc[g] = "idle"
    /\ callsMade[g] < MaxCalls
    /\ callsMade' = [callsMade EXCEPT ![g] = @ + 1]
    /\ resolverPc' = [resolverPc EXCEPT ![g] = "do"]
    /\ UNCHANGED <<modelsConfigOnce, modelsConfigCached, modelsFile, seenConfigs,
                   loadCount, resetCount>>
    /\ UNCHANGED nonModelsVars

\* sync.Once.Do, the fast path: the done flag is read.
OnceCheck(g) ==
    /\ resolverPc[g] = "do"
    /\ resolverPc' = [resolverPc EXCEPT ![g] = IF modelsConfigOnce.done THEN "after"
                                               ELSE "slow"]
    /\ UNCHANGED <<modelsConfigOnce, modelsConfigCached, modelsFile, callsMade,
                   seenConfigs, loadCount, resetCount>>
    /\ UNCHANGED nonModelsVars

\* sync.Once.Do, the slow path: the mutex is taken.
OnceLock(g) ==
    /\ resolverPc[g] = "slow"
    /\ ~modelsConfigOnce.locked
    /\ modelsConfigOnce' = [modelsConfigOnce EXCEPT !.locked = TRUE]
    /\ resolverPc' = [resolverPc EXCEPT ![g] = "locked"]
    /\ UNCHANGED <<modelsConfigCached, modelsFile, callsMade, seenConfigs, loadCount,
                   resetCount>>
    /\ UNCHANGED nonModelsVars

\* A slow path that does not look at the done flag again.
OnceRunUnchecked(g) ==
    /\ resolverPc[g] = "locked"
    /\ modelsConfigCached' = loadModelsConfig
    /\ loadCount' = loadCount + 1
    /\ modelsConfigOnce' = [done |-> TRUE, locked |-> FALSE]
    /\ resolverPc' = [resolverPc EXCEPT ![g] = "after"]
    /\ UNCHANGED <<modelsFile, callsMade, seenConfigs, resetCount>>
    /\ UNCHANGED nonModelsVars

\* sync.Once.Do under the mutex: if the flag is still unset the function
\* runs, modelsConfigCached = loadModelsConfig(), and the flag is set; the
\* mutex is released.
OnceRun(g) ==
    /\ resolverPc[g] = "locked"
    /\ IF modelsConfigOnce.done
         THEN UNCHANGED <<modelsConfigCached, loadCount>>
         ELSE /\ modelsConfigCached' = loadModelsConfig
              /\ loadCount' = loadCount + 1
    /\ modelsConfigOnce' = [done |-> TRUE, locked |-> FALSE]
    /\ resolverPc' = [resolverPc EXCEPT ![g] = "after"]
    /\ UNCHANGED <<modelsFile, callsMade, seenConfigs, resetCount>>
    /\ UNCHANGED nonModelsVars

\* modelsConfig returns the cached config, and the caller (resolveAgentConfig,
\* ResolveBackendConfig) reads what it needs from it.
ReturnModelsConfig(g) ==
    /\ resolverPc[g] = "after"
    /\ seenConfigs' = seenConfigs \cup
                        {IF modelsConfigCached.isNil THEN ConfigPtr(FALSE, -1)
                         ELSE modelsConfigCached}
    /\ resolverPc' = [resolverPc EXCEPT ![g] = "idle"]
    /\ UNCHANGED <<modelsConfigOnce, modelsConfigCached, modelsFile, callsMade,
                   loadCount, resetCount>>
    /\ UNCHANGED nonModelsVars

\* models.json is changed on disk.
EditModelsFile ==
    /\ \E g \in Resolvers : resolverPc[g] # "none"
    /\ modelsFile < MaxEdits
    /\ modelsFile' = modelsFile + 1
    /\ UNCHANGED <<modelsConfigOnce, modelsConfigCached, resolverPc, callsMade,
                   seenConfigs, loadCount, resetCount>>
    /\ UNCHANGED nonModelsVars

\* ResetModelsConfigCacheForTest, called by a test's set-up or clean-up while
\* no goroutine is inside modelsConfig.
ResetModelsConfigCacheForTest ==
    /\ \A g \in Resolvers : resolverPc[g] = "idle"
    /\ resetCount < MaxResets
    /\ resetCount' = resetCount + 1
    /\ modelsConfigCached' = ConfigPtr(TRUE, 0)
    /\ modelsConfigOnce' = FreshOnce
    /\ seenConfigs' = {}
    /\ UNCHANGED <<modelsFile, resolverPc, callsMade, loadCount>>
    /\ UNCHANGED nonModelsVars

ModelsNext ==
    \/ \E g \in Resolvers : CallModelsConfig(g)
    \/ \E g \in Resolvers : OnceCheck(g)
    \/ \E g \in Resolvers : OnceLock(g)
    \/ \E g \in Resolvers : OnceRun(g)
    \/ \E g \in Resolvers : ReturnModelsConfig(g)
    \/ EditModelsFile
    \/ ResetModelsConfigCacheForTest

(***************************************************************************)
(* tailBuffer (executor/log_helpers.go)                                    *)
(***************************************************************************)

\* The largest limit of a tailBuffer, the longest argument of one Write and
\* the most bytes written in all.
MaxLimit == 3

MaxWrite == 3

MaxWritten == 5

TailBytes == {"a", "b"}

\* A slice s[i:] of Go, with i counted from 0.
SliceFrom(s, i) == SubSeq(s, i + 1, Len(s))

WriteResult(data, n, err) == [data |-> data, n |-> n, err |-> err]

\* A Write that keeps the oldest bytes of a full buffer.
WriteKeepsHead(limit, data, p) ==
    IF limit <= 0 THEN WriteResult(data, Len(p), "nil")
    ELSE WriteResult(SubSeq(data \o p, 1, IF Len(data) + Len(p) < limit
                                            THEN Len(data) + Len(p) ELSE limit),
                     Len(p), "nil")

\* tailBuffer.Write(p) on a buffer with the given limit and data.
Write(limit, data, p) ==
    IF limit <= 0 THEN WriteResult(data, Len(p), "nil")
    ELSE IF Len(p) >= limit
      THEN WriteResult(SliceFrom(p, Len(p) - limit), Len(p), "nil")
    ELSE LET total == Len(data) + Len(p) IN
         IF total <= limit THEN WriteResult(data \o p, Len(p), "nil")
         ELSE WriteResult(SliceFrom(data, total - limit) \o p, Len(p), "nil")

NoWrite == [len |-> 0, n |-> 0, err |-> "nil"]

TailIdle ==
    /\ tailLimit = 0
    /\ tailData = <<>>
    /\ tailWritten = <<>>
    /\ tailRet = [len |-> -1, n |-> 0, err |-> "nil"]

\* A new tailBuffer of some limit.
TailInit ==
    /\ tailLimit \in -1 .. MaxLimit
    /\ tailData = <<>>
    /\ tailWritten = <<>>
    /\ tailRet = NoWrite

\* One call of Write.
TailWrite(p) ==
    /\ tailRet.len >= 0
    /\ Len(tailWritten) + Len(p) <= MaxWritten
    /\ LET r == Write(tailLimit, tailData, p) IN
       /\ tailData' = r.data
       /\ tailRet' = [len |-> Len(p), n |-> r.n, err |-> r.err]
    /\ tailWritten' = tailWritten \o p
    /\ UNCHANGED tailLimit
    /\ UNCHANGED nonTailVars

TailNext ==
    \E p \in UNION {[1 .. k -> TailBytes] : k \in 0 .. MaxWrite} : TailWrite(p)

(***************************************************************************)
(* The active-logger handle (logger/active.go)                             *)
(***************************************************************************)

\* The number of goroutines that use the handle, the most calls each makes
\* and the most loggers that are installed.
MaxThreads == 2

MaxOps == 3

MaxLoggers == 2

Threads == 1 .. MaxThreads

LoggerIds == 1 .. MaxLoggers

\* Where a goroutine is: in no call, or inside closeLogger or a log helper
\* with the logger it got from the pointer.
HandleAt(in, logger) == [in |-> in, logger |-> logger]

\* What a finished call did.
CallDone(op, outcome) == [op |-> op, outcome |-> outcome]

ActiveIdle ==
    /\ activePtr = 0
    /\ installed = 0
    /\ closeCalls = [l \in LoggerIds |-> 0]
    /\ logCalls = [l \in LoggerIds |-> 0]
    /\ handlePc = [t \in Threads |-> HandleAt("none", 0)]
    /\ opsDone = [t \in Threads |-> 0]
    /\ lastPtrOp = "none"
    /\ lastRet = CallDone("none", "none")

ActiveInit ==
    /\ activePtr = 0
    /\ installed = 0
    /\ closeCalls = [l \in LoggerIds |-> 0]
    /\ logCalls = [l \in LoggerIds |-> 0]
    /\ handlePc = [t \in Threads |-> HandleAt("idle", 0)]
    /\ opsDone = [t \in Threads |-> 0]
    /\ lastPtrOp = "none"
    /\ lastRet = CallDone("none", "none")

CanBegin(t) == handlePc[t].in = "idle" /\ opsDone[t] < MaxOps

\* setLogger(l) with a logger that was just made: loggerPtr.Store(l).
SetLoggerCall(t) ==
    /\ CanBegin(t)
    /\ installed < MaxLoggers
    /\ installed' = installed + 1
    /\ activePtr' = installed + 1
    /\ lastPtrOp' = "store"
    /\ opsDone' = [opsDone EXCEPT ![t] = @ + 1]
    /\ lastRet' = CallDone("setLogger", "stored")
    /\ UNCHANGED <<closeCalls, logCalls, handlePc>>
    /\ UNCHANGED nonActiveVars

\* A closeLogger that reads the pointer and clears it in two steps, of
\* which this is the first.
CloseLoggerLoad(t) ==
    /\ CanBegin(t)
    /\ opsDone' = [opsDone EXCEPT ![t] = @ + 1]
    /\ IF activePtr = 0
         THEN /\ lastRet' = CallDone("closeLogger", "nil")
              /\ UNCHANGED handlePc
         ELSE /\ handlePc' = [handlePc EXCEPT ![t] = HandleAt("closing", activePtr)]
              /\ UNCHANGED lastRet
    /\ UNCHANGED <<activePtr, installed, closeCalls, logCalls, lastPtrOp>>
    /\ UNCHANGED nonActiveVars

\* closeLogger, its first step: logger := loggerPtr.Swap(nil); a nil logger
\* makes it return nil.
CloseLoggerSwap(t) ==
    /\ CanBegin(t)
    /\ opsDone' = [opsDone EXCEPT ![t] = @ + 1]
    /\ activePtr' = 0
    /\ lastPtrOp' = "swap"
    /\ IF activePtr = 0
         THEN /\ lastRet' = CallDone("closeLogger", "nil")
              /\ UNCHANGED handlePc
         ELSE /\ handlePc' = [handlePc EXCEPT ![t] = HandleAt("closing", activePtr)]
              /\ UNCHANGED lastRet
    /\ UNCHANGED <<installed, closeCalls, logCalls>>
    /\ UNCHANGED nonActiveVars

\* closeLogger, its second step: return logger.Close().
CloseLoggerClose(t) ==
    /\ handlePc[t].in = "closing"
    /\ closeCalls' = [closeCalls EXCEPT ![handlePc[t].logger] = @ + 1]
    /\ handlePc' = [handlePc EXCEPT ![t] = HandleAt("idle", 0)]
    /\ lastRet' = CallDone("closeLogger", "closed")
    /\ UNCHANGED <<activePtr, installed, logCalls, opsDone, lastPtrOp>>
    /\ UNCHANGED nonActiveVars

\* logDebug, logInfo, logWarn, logError, the first step:
\* logger := activeLogger(); a nil logger makes the helper return.
LogHelperLoad(t) ==
    /\ CanBegin(t)
    /\ opsDone' = [opsDone EXCEPT ![t] = @ + 1]
    /\ IF activePtr = 0
         THEN /\ lastRet' = CallDone("log", "no-op")
              /\ UNCHANGED handlePc
         ELSE /\ handlePc' = [handlePc EXCEPT ![t] = HandleAt("logging", activePtr)]
              /\ UNCHANGED lastRet
    /\ UNCHANGED <<activePtr, installed, closeCalls, logCalls, lastPtrOp>>
    /\ UNCHANGED nonActiveVars

\* The helper's second step: the method of the logger it holds.
LogHelperLog(t) ==
    /\ handlePc[t].in = "logging"
    /\ logCalls' = [logCalls EXCEPT ![handlePc[t].logger] = @ + 1]
    /\ handlePc' = [handlePc EXCEPT ![t] = HandleAt("idle", 0)]
    /\ lastRet' = CallDone("log", "logged")
    /\ UNCHANGED <<activePtr, installed, closeCalls, opsDone, lastPtrOp>>
    /\ UNCHANGED nonActiveVars

ActiveNext ==
    \/ \E t \in Threads : SetLoggerCall(t)
    \/ \E t \in Threads : CloseLoggerSwap(t)
    \/ \E t \in Threads : CloseLoggerClose(t)
    \/ \E t \in Threads : LogHelperLoad(t)
    \/ \E t \in Threads : LogHelperLog(t)

LaterIdle ==
    LifeIdle /\ WriterIdle /\ HookIdle /\ ModelsIdle /\ TailIdle /\ ActiveIdle

FirstIdle ==
    SchedIdle /\ RunIdle /\ LogIdle /\ ParseIdle /\ BlockIdle /\ SingleIdle /\ PromptIdle

Init ==
    /\ SchedInit /\ RunIdle /\ LogIdle /\ ParseIdle /\ BlockIdle /\ SingleIdle /\ PromptIdle
    /\ LaterIdle

Next ==
    \/ RunParallelMode
    \/ ExecuteWithContext
    \/ StartLayer
    \/ ExecuteReturn
    \/ RunParallelModeFinish
    \/ \E t \in DOMAIN st : AcquireSlot(t)
    \/ \E t \in DOMAIN st : GiveUp(t)
    \/ \E t \in DOMAIN st : NoticeCancel(t)
    \/ \E t \in DOMAIN st : Reaped(t)
    \/ \E t \in DOMAIN st : \E code \in 0 .. MaxExit : ChildExit(t, code)
    \/ \E t \in DOMAIN st : DeadlineExpire(t)
    \/ CancelContext

Spec == Init /\ [][Next]_vars

\* The Go runtime schedules every runnable goroutine: the scheduler loop and
\* the runners take their steps. Nothing makes a child exit by itself, a
\* deadline expire or the caller cancel.
FairSpec == Spec /\ WF_vars(SchedulerStep) /\ WF_vars(RunnerStep)

\* The scheduler over the batches of the block parser in which some
\* dependency IDs may be unknown.
DanglingSpecInit ==
    /\ DanglingInit /\ RunIdle /\ LogIdle /\ ParseIdle /\ BlockIdle /\ SingleIdle /\ PromptIdle
    /\ LaterIdle

DanglingSpec == DanglingSpecInit /\ [][Next]_vars

RunSpecInit ==
    /\ RunInit /\ SchedIdle /\ LogIdle /\ ParseIdle /\ BlockIdle /\ SingleIdle /\ PromptIdle
    /\ LaterIdle

RunSpec == RunSpecInit /\ [][RunNext]_vars

\* The runner's goroutines are scheduled and time passes. Nothing makes the
\* child exit by itself or the owner cancel.
FairRunSpec == RunSpec /\ WF_vars(RunProgress) /\ WF_vars(Tick)

LogSpecInit ==
    /\ LogInit /\ SchedIdle /\ RunIdle /\ ParseIdle /\ BlockIdle /\ SingleIdle /\ PromptIdle
    /\ LaterIdle

LogSpec == LogSpecInit /\ [][LogNext]_vars

ParseSpecInit ==
    /\ ParseInit /\ SchedIdle /\ RunIdle /\ LogIdle /\ BlockIdle /\ SingleIdle /\ PromptIdle
    /\ LaterIdle

ParseSpec == ParseSpecInit /\ [][ParseNext]_vars

\* The normalizer over the stream of one backend.
ClaudeNext ==
    \/ \E e \in ClaudeDialectEvents : ReadLine(Line("event", e))
    \/ EndOfStream

ClaudeSpec == ParseSpecInit /\ [][ClaudeNext]_vars

GeminiNext ==
    \/ \E e \in GeminiDialectEvents : ReadLine(Line("event", e))
    \/ EndOfStream

GeminiSpec == ParseSpecInit /\ [][GeminiNext]_vars

OpencodeNext ==
    \/ \E e \in OpencodeDialectEvents : ReadLine(Line("event", e))
    \/ EndOfStream

OpencodeSpec == ParseSpecInit /\ [][OpencodeNext]_vars

\* The normalizer over events that bear the marks of several dialects, of
\* one, or of none.
MixedEvents ==
    {[ZeroEvent EXCEPT !.type = "text", !.opencodeSessionID = "S2",
                       !.part = Part("text", <<"h">>, "", ""), !.threadID = "T1"],
     [ZeroEvent EXCEPT !.type = "text", !.opencodeSessionID = "S2",
                       !.part = Part("text", <<"h">>, "", ""), !.result = <<"i">>,
                       !.sessionID = "S1"],
     [ZeroEvent EXCEPT !.type = "turn.completed", !.result = <<"h">>, !.sessionID = "S1"],
     [ZeroEvent EXCEPT !.type = "thread.started", !.threadID = "T1", !.status = "success",
                       !.content = <<"i">>],
     [ZeroEvent EXCEPT !.type = "result", !.subtype = "success", !.sessionID = "S1",
                       !.result = <<"h">>, !.status = "success", !.content = <<"i">>],
     [ZeroEvent EXCEPT !.type = "result", !.opencodeSessionID = "S2",
                       !.part = Part("step-finish", <<>>, "stop", "S2"),
                       !.threadID = "T1", !.result = <<"h">>, !.role = "assistant",
                       !.content = <<"i">>, !.status = "success"],
     [ZeroEvent EXCEPT !.type = "assistant"],
     [ZeroEvent EXCEPT !.type = "init", !.content = <<"i">>],
     [ZeroEvent EXCEPT !.type = "text", !.opencodeSessionID = "S2"]}

MixedNext ==
    \/ \E e \in MixedEvents \cup ClaudeEvents \cup GeminiEvents \cup OpencodeEvents :
          ReadLine(Line("event", e))
    \/ EndOfStream

MixedSpec == ParseSpecInit /\ [][MixedNext]_vars

\* ParseParallelConfig over the documents of the model.
BlockSpecInit ==
    /\ BlockInit /\ SchedIdle /\ RunIdle /\ LogIdle /\ ParseIdle /\ SingleIdle /\ PromptIdle
    /\ LaterIdle

BlockSpec == BlockSpecInit /\ [][BlockNext]_vars

\* ParseParallelConfig over blocks that name an agent.
AgentSpec == BlockSpecInit /\ [][AgentNext]_vars

\* Single-task mode: buildSingleConfig over flags, environment and config
\* file (ConfigSpec), and the whole run over the task texts (SingleSpec).
SingleSpecInit ==
    /\ SingleInit /\ SchedIdle /\ RunIdle /\ LogIdle /\ ParseIdle /\ BlockIdle /\ PromptIdle
    /\ LaterIdle

ConfigSpec == SingleSpecInit /\ [][ConfigNext]_vars

SingleSpec == SingleSpecInit /\ [][SingleNext]_vars

\* ReadAgentPromptFile over the paths and the file systems of the model.
PromptSpecInit ==
    /\ PromptInit /\ SchedIdle /\ RunIdle /\ LogIdle /\ ParseIdle /\ BlockIdle /\ SingleIdle
    /\ LaterIdle

PromptSpec == PromptSpecInit /\ [][PromptNext]_vars

\* One run of runWithLoggerAndCleanup over the log calls of the wrapped
\* function and its exit codes.
LifeSpecInit ==
    /\ LifeInit
    /\ FirstIdle
    /\ WriterIdle
    /\ HookIdle
    /\ ModelsIdle
    /\ TailIdle
    /\ ActiveIdle

LifeSpec == LifeSpecInit /\ [][LifeNext]_vars

\* Goroutines that log through one Logger while Flush is called.
WriterSpecInit ==
    /\ WriterInit
    /\ FirstIdle
    /\ LifeIdle
    /\ HookIdle
    /\ ModelsIdle
    /\ TailIdle
    /\ ActiveIdle

WriterSpec == WriterSpecInit /\ [][WriterNext]_vars

\* The /do stop hook over state files and stdin payloads.
HookSpecInit ==
    /\ HookInit
    /\ FirstIdle
    /\ LifeIdle
    /\ WriterIdle
    /\ ModelsIdle
    /\ TailIdle
    /\ ActiveIdle

HookSpec == HookSpecInit /\ [][HookNext]_vars

\* Goroutines that call modelsConfig while models.json changes on disk, and
\* the reset hook of the tests.
ModelsSpecInit ==
    /\ ModelsInit
    /\ FirstIdle
    /\ LifeIdle
    /\ WriterIdle
    /\ HookIdle
    /\ TailIdle
    /\ ActiveIdle

ModelsSpec == ModelsSpecInit /\ [][ModelsNext]_vars

\* Writes to a tailBuffer of any limit.
TailSpecInit ==
    /\ TailInit
    /\ FirstIdle
    /\ LifeIdle
    /\ WriterIdle
    /\ HookIdle
    /\ ModelsIdle
    /\ ActiveIdle

TailSpec == TailSpecInit /\ [][TailNext]_vars

\* Goroutines that call setLogger, closeLogger and the log helpers.
ActiveSpecInit ==
    /\ ActiveInit
    /\ FirstIdle
    /\ LifeIdle
    /\ WriterIdle
    /\ HookIdle
    /\ ModelsIdle
    /\ TailIdle

ActiveSpec == ActiveSpecInit /\ [][ActiveNext]_vars

(***************************************************************************)
(* Graph notions the claims are stated with.                               *)
(***************************************************************************)
RECURSIVE Closure(_, _)
Closure(d, S) ==
    LET N == S \cup UNION {d[u] : u \in S \cap DOMAIN d} IN
    IF N = S THEN S ELSE Closure(d, N)

\* The transitive dependencies of task t.
TransDeps(d, t) == Closure(d, d[t])

OnCycle(d, t) == t \in TransDeps(d, t)

Acyclic(d) == \A t \in DOMAIN d : ~OnCycle(d, t)

\* The 1-based index of the layer that holds t (0: in no layer).
LayerOf(ls, t) ==
    IF \E k \in DOMAIN ls : t \in Range(ls[k])
    THEN CHOOSE k \in DOMAIN ls : t \in Range(ls[k])
    ELSE 0

Planned == pc # "start" /\ sortErr.kind = "none"

\* topologicalSort has returned and no layer has been started yet.
JustPlanned == pc # "start" /\ cur = 0

Started(t) == st[t] # "pending"

(***************************************************************************)
(* C1. For an acyclic task list without dangling dependency,               *)
(* topologicalSort succeeds, every task appears exactly once in the        *)
(* layers, and each dependency lies in a strictly earlier layer than the   *)
(* task that depends on it. (The plan is not changed once made: the         *)
(* property is stated where topologicalSort has returned.)                 *)
(***************************************************************************)
C1_LayeringSound ==
    (JustPlanned /\ Acyclic(deps) /\ DanglingTasks(deps) = {}) =>
        /\ sortErr.kind = "none"
        /\ Len(Flatten(layers)) = Len(deps)
        /\ Range(Flatten(layers)) = TaskIDs(deps)
        /\ \A v \in TaskIDs(deps) : \A u \in deps[v] :
               /\ LayerOf(layers, u) >= 1
               /\ LayerOf(layers, u) < LayerOf(layers, v)

C1_Witness ==
    /\ Planned
    /\ Len(deps) = MaxTasks
    /\ Len(layers) = 2
    /\ \E v \in TaskIDs(deps) : Cardinality(deps[v]) = 2

(***************************************************************************)
(* C2. A dependency graph with a cycle (a self-dependency included) makes  *)
(* topologicalSort fail with a cycle error that names a task on a cycle;   *)
(* no task is launched, and runParallelMode exits with code 1. (A cyclic   *)
(* graph that was not rejected shows where the plan has just been made.)   *)
(***************************************************************************)
C2_CycleRejected ==
    (pc # "start" /\ (sortErr.kind # "none" \/ cur = 0) /\ ~Acyclic(deps)) =>
        /\ pc = "exit"
        /\ sortErr.kind = "cycle"
        /\ \E t \in sortErr.ids : OnCycle(deps, t)
        /\ launched = {}
        /\ \A t \in DOMAIN st : st[t] = "pending"
        /\ results = <<>>
        /\ entry = "cli" => exitCode = 1

C2_Witness ==
    /\ entry = "cli"
    /\ pc = "exit"
    /\ sortErr.kind = "cycle"
    /\ \E t \in DOMAIN deps : t \in deps[t]
    /\ \E t \in sortErr.ids : ~OnCycle(deps, t)

(***************************************************************************)
(* C3. Layer barrier: a task is started only when every task of every      *)
(* earlier layer is finalized; so all its transitive dependencies are      *)
(* finalized.                                                              *)
(***************************************************************************)
C3_LayerBarrier ==
    Planned =>
        /\ \A k \in DOMAIN layers :
               (\E i \in DOMAIN layers[k] : Started(layers[k][i])) =>
                   \A j \in 1 .. (k - 1) : \A i \in DOMAIN layers[j] :
                       st[layers[j][i]] = "finalized"
        /\ \A t \in DOMAIN st :
               Started(t) => \A u \in TransDeps(deps, t) : st[u] = "finalized"

C3_Witness ==
    /\ Planned
    /\ \E t \in DOMAIN st :
          /\ st[t] = "running"
          /\ LayerOf(layers, t) = 2
          /\ Cardinality(deps[t]) = 2
          /\ \A u \in deps[t] : res[u].cause = "ok"

(***************************************************************************)
(* C4. Bounded concurrency: the resolved worker cap lies in 0..100; when   *)
(* it is not 0 the number of child processes in flight never exceeds it;   *)
(* when it is 0 no waiting task is held back.                              *)
(***************************************************************************)
C4_BoundedConcurrency ==
    (pc = "exec") =>
        /\ maxWorkers \in 0 .. maxParallelWorkersLimit
        /\ maxWorkers # 0 => Cardinality(InFlight) <= maxWorkers
        /\ maxWorkers = 0 => \A t \in DOMAIN st : st[t] = "waiting" => ENABLED AcquireSlot(t)

C4_Witness ==
    /\ pc = "exec"
    /\ entry = "cli"
    /\ maxWorkers = 1
    /\ Cardinality(InFlight) = 1
    /\ \E t \in DOMAIN st : st[t] = "waiting" /\ ~ENABLED AcquireSlot(t)

(***************************************************************************)
(* C5. executeConcurrent returns exactly one TaskResult per input task,    *)
(* in the declared order of the batch.                                     *)
(***************************************************************************)
Returned == Planned /\ pc \in {"collect", "exit"}

C5_ResultsInDeclaredOrder ==
    Returned =>
        /\ Len(results) = Len(deps)
        /\ \A i \in DOMAIN results : results[i].id = i

\* What holds of the results: one per task.
C5_OneResultPerTask ==
    Returned =>
        /\ Len(results) = Len(deps)
        /\ {results[i].id : i \in DOMAIN results} = TaskIDs(deps)

(***************************************************************************)
(* C6. Deadline escalation. The runner sends the terminate signal first,   *)
(* and only once the deadline has expired or the context is done; it kills *)
(* only a child that is still alive when the force-kill countdown ends,    *)
(* and no child lives past that; Run returns only after the child has been *)
(* reaped. With a timeout (timeout > 0) Run returns no later than          *)
(* timeout + forceKillDelay after its start, and it always returns; with   *)
(* no timeout (0) it returns once the context is done, no later than       *)
(* forceKillDelay after the terminate signal.                              *)
(***************************************************************************)
Escalation ==
    /\ sigs \in {<<>>, <<"SIGTERM">>, <<"SIGTERM", "SIGKILL">>}
    /\ termAt >= 0 => (rctxDone \/ (rtimeout > 0 /\ termAt >= rtimeout))
    /\ killAt >= 0 => (termAt >= 0 /\ killAt >= termAt + forceKillDelay)
    /\ (child = "alive" /\ termAt >= 0) => now <= termAt + forceKillDelay

ReapedBeforeReturn ==
    (rpc = "returned" /\ proc = "live") => child = "reaped"

DeadlineWithTimeout ==
    (rpc = "returned" /\ rtimeout > 0) => finishAt <= rtimeout + forceKillDelay

ReturnAfterTerminate ==
    (rpc = "returned" /\ termAt >= 0) => finishAt <= termAt + forceKillDelay

CancelRecorded ==
    \A t \in DOMAIN st :
        (ctxCancelled /\ st[t] \in {"running", "term_cancel"} /\ st'[t] = "finalized")
            => res'[t].cause = "cancelled" /\ Failed(res'[t])

CancelledBatchComplete ==
    (ctxCancelled /\ pc = "exit") =>
        /\ Len(results) = Len(deps)
        /\ {results[i].id : i \in DOMAIN results} = TaskIDs(deps)
        /\ \A i \in DOMAIN results : results[i].cause # "none"
        /\ \A t \in DOMAIN st : st[t] = "finalized"

C7_CancellationPropagates ==
    /\ [][CancelRecorded]_vars
    /\ []CancelledBatchComplete
    /\ (ctxCancelled /\ pc = "exec") ~> (pc = "exit")

C7_Witness ==
    /\ ctxCancelled
    /\ pc = "exit"
    /\ Len(layers) >= 2
    /\ \E t \in DOMAIN res : res[t].cause = "cancelled" /\ t \in launched
    /\ \E t \in DOMAIN res : res[t].cause = "cancelled" /\ t \notin launched

(***************************************************************************)
(* C8. Log reclamation safety: cleanupOldLogs never deletes the log of a   *)
(* running process whose start time precedes the file's mtime, and never   *)
(* touches a file whose name does not match the wrapper's PID-bearing      *)
(* pattern.                                                                *)
(***************************************************************************)
OwnedByRunning(l) == l.alive /\ l.start < l.f.mtime

C8_LogReclamationSafe ==
    /\ OwnedByRunning(last) => last.decision # "deleted"
    /\ ~GlobMatch(last.f) => ~last.removeCalled

(***************************************************************************)
(* C9. An entry that is a symlink, or whose resolved path lies outside     *)
(* tempDir, is never passed to the remove function, whether the process of *)
(* its PID runs or not.                                                    *)
(***************************************************************************)
C9_UnsafeNeverRemoved ==
    (last.f.symlink \/ last.f.resolved = "outside") => ~last.removeCalled

\* A symlink named after a dead PID, pointing into tempDir, is kept.
C9_Witness ==
    /\ last.decision = "kept"
    /\ last.f.symlink
    /\ last.f.resolved = "inside"
    /\ ~last.alive
    /\ last.reason = "refusing to delete symlink"

(***************************************************************************)
(* C10. Codex dialect. A Codex event is an event with the fields of Codex  *)
(* only that the detection attributes to Codex.                            *)
(***************************************************************************)
CodexTypes ==
    {"thread.started", "thread.completed", "turn.started", "turn.completed",
     "item.completed"}

CodexOnly(e) ==
    /\ e.type \in CodexTypes
    /\ e.subtype = "" /\ e.sessionID = "" /\ e.result = <<>>
    /\ e.role = "" /\ e.content = <<>> /\ e.delta = "nil" /\ e.status = ""
    /\ e.opencodeSessionID = "" /\ ~e.part.present

IsCodexEvent(line) == line.kind = "event" /\ CodexOnly(line.ev) /\ IsCodex(line.ev)

IsAgentMessage(line) ==
    /\ IsCodexEvent(line)
    /\ line.ev.type = "item.completed"
    /\ line.ev.item.object
    /\ line.ev.item.type = "agent_message"

\* The text of item.text: the string, or the strings of the array joined
\* in order.
RECURSIVE JoinUpTo(_, _)
JoinUpTo(arr, n) ==
    IF n = 0 THEN <<>>
    ELSE JoinUpTo(arr, n - 1) \o (IF arr[n].isString THEN arr[n].s ELSE <<>>)

TextOf(text) ==
    IF text.kind = "string" THEN text.s
    ELSE IF text.kind = "array" THEN JoinUpTo(text.arr, Len(text.arr))
    ELSE <<>>

\* The text of the last agent_message among the first n lines; with
\* nonEmptyOnly, of the last one whose text is not empty.
RECURSIVE LastAgentText(_, _, _)
LastAgentText(lines, n, nonEmptyOnly) ==
    IF n = 0 THEN <<>>
    ELSE IF IsAgentMessage(lines[n])
              /\ (nonEmptyOnly => TextOf(lines[n].ev.item.text) # <<>>)
         THEN TextOf(lines[n].ev.item.text)
         ELSE LastAgentText(lines, n - 1, nonEmptyOnly)

JustRead == ppc = "reading" /\ stream # <<>>

LastLine == stream[Len(stream)]

\* The stream holds nothing of another backend.
CodexStream ==
    \A i \in DOMAIN stream : stream[i].kind = "event" => CodexOnly(stream[i].ev)

SessionAndCompletion ==
    (JustRead /\ IsCodexEvent(LastLine)) =>
        /\ LastLine.ev.type = "thread.started" => threadID = LastLine.ev.threadID
        /\ LastLine.ev.type \in {"thread.completed", "turn.completed"} =>
               fired = <<"complete">>

(***************************************************************************)
(* C10, as amended: each thread.started event sets the session ID to its   *)
(* thread_id, each thread.completed and each turn.completed event signals  *)
(* completion, and each agent_message whose normalized text is not empty   *)
(* replaces the current message with it (an agent_message with an empty    *)
(* text changes nothing); at the end of a Codex stream the message is that *)
(* of the last agent_message with a non-empty text.                        *)
(***************************************************************************)
C10_CodexDialectNonEmpty ==
    /\ SessionAndCompletion
    /\ (JustRead /\ IsAgentMessage(LastLine)) =>
           LET text == TextOf(LastLine.ev.item.text) IN
           IF text # <<>>
           THEN codexMessage = text /\ fired = <<"message">>
           ELSE /\ codexMessage = LastAgentText(stream, Len(stream) - 1, TRUE)
                /\ fired = <<>>
    /\ (ppc = "done" /\ CodexStream) =>
           message = LastAgentText(stream, Len(stream), TRUE)

\* An array of strings is joined, an empty agent_message after it changes
\* nothing, and thread.completed gives the session ID.
C10_Witness ==
    /\ ppc = "done"
    /\ Len(stream) = 3
    /\ IsAgentMessage(stream[1])
    /\ stream[1].ev.item.text.kind = "array"
    /\ IsAgentMessage(stream[2])
    /\ TextOf(stream[2].ev.item.text) = <<>>
    /\ stream[3].ev.type = "thread.completed"
    /\ message = <<"h", "i">>
    /\ threadID = "T1"

\* C10 as stated: every agent_message replaces the message with its
\* normalized text, and the message of the stream is that of the last
\* agent_message.
C10_CodexDialect ==
    /\ SessionAndCompletion
    /\ (JustRead /\ IsAgentMessage(LastLine)) =>
           codexMessage = TextOf(LastLine.ev.item.text)
    /\ (ppc = "done" /\ CodexStream) =>
           message = LastAgentText(stream, Len(stream), FALSE)

(***************************************************************************)
(* C11. Claude dialect. A Claude event is an event that the detection      *)
(* attributes to Claude and to no backend that is handled before it.       *)
(***************************************************************************)
IsClaudeEvent(line) ==
    /\ line.kind = "event"
    /\ ~IsOpencode(line.ev) /\ ~IsCodex(line.ev)
    /\ IsClaude(line.ev)

ClaudeStream == \A i \in DOMAIN stream : IsClaudeEvent(stream[i])

\* The session_id of the first of the first n events that carries one.
RECURSIVE FirstSessionID(_, _)
FirstSessionID(lines, n) ==
    IF n = 0 THEN ""
    ELSE IF FirstSessionID(lines, n - 1) # "" THEN FirstSessionID(lines, n - 1)
    ELSE lines[n].ev.sessionID

\* The session_id of the last of the first n events that carries one.
RECURSIVE LastSessionID(_, _)
LastSessionID(lines, n) ==
    IF n = 0 THEN ""
    ELSE IF lines[n].ev.sessionID # "" THEN lines[n].ev.sessionID
    ELSE LastSessionID(lines, n - 1)

\* The result of the last of the first n events whose result is not empty.
RECURSIVE LastResult(_, _)
LastResult(lines, n) ==
    IF n = 0 THEN <<>>
    ELSE IF lines[n].ev.result # <<>> THEN lines[n].ev.result
    ELSE LastResult(lines, n - 1)

Completes == \E i \in DOMAIN fired : fired[i] = "complete"

ClaudeMessageAndCompletion ==
    ClaudeStream =>
        /\ claudeMessage = LastResult(stream, Len(stream))
        /\ (JustRead /\ LastLine.ev.type = "result") => Completes
        /\ ppc = "done" => message = LastResult(stream, Len(stream))

(***************************************************************************)
(* C11, as amended: over any sequence of Claude events the session ID is   *)
(* the session_id of the first event that carries one and later events do  *)
(* not change it, each event with a non-empty result string replaces the   *)
(* current message (the last one wins), and each event with type "result"  *)
(* signals completion.                                                     *)
(***************************************************************************)
C11_ClaudeDialectFirstSession ==
    /\ ClaudeMessageAndCompletion
    /\ ClaudeStream => threadID = FirstSessionID(stream, Len(stream))

\* Two events with different session IDs and different results: the first
\* session ID and the last result are returned.
C11_Witness ==
    /\ ppc = "done"
    /\ ClaudeStream
    /\ Len(stream) = 3
    /\ stream[1].ev.sessionID = "S1"
    /\ stream[1].ev.result = <<"h">>
    /\ stream[2].ev.sessionID = "S3"
    /\ stream[2].ev.result = <<"i">>
    /\ stream[3].ev.result = <<>>
    /\ threadID = "S1"
    /\ message = <<"i">>

\* C11 as stated: the session ID mirrors the session_id of the events, that
\* is, it is the session_id that the latest event with a session_id carries.
C11_ClaudeDialect ==
    /\ ClaudeMessageAndCompletion
    /\ ClaudeStream => threadID = LastSessionID(stream, Len(stream))

(***************************************************************************)
(* C12. Opencode dialect: the session ID is set by the first Opencode      *)
(* event and never changed by later ones; part.text is appended to the     *)
(* message, in arrival order, when and only when event.type is "text";     *)
(* completion is signalled exactly for the events with part.type           *)
(* "step-finish" and part.reason "stop", once for each.                    *)
(***************************************************************************)
IsOpencodeEvent(line) == line.kind = "event" /\ IsOpencode(line.ev)

OpencodeStream == \A i \in DOMAIN stream : IsOpencodeEvent(stream[i])

\* The part.text of the text events among the first n lines, in order.
RECURSIVE OpencodeText(_, _)
OpencodeText(lines, n) ==
    IF n = 0 THEN <<>>
    ELSE OpencodeText(lines, n - 1)
             \o (IF lines[n].ev.type = "text" THEN lines[n].ev.part.text ELSE <<>>)

StopPart(line) == line.ev.part.type = "step-finish" /\ line.ev.part.reason = "stop"

CompleteCount == Cardinality({i \in DOMAIN fired : fired[i] = "complete"})

C12_OpencodeDialect ==
    OpencodeStream =>
        /\ stream # <<>> => threadID = stream[1].ev.opencodeSessionID
        /\ opencodeMessage = OpencodeText(stream, Len(stream))
        /\ JustRead => CompleteCount = (IF StopPart(LastLine) THEN 1 ELSE 0)
        /\ ppc = "done" => message = OpencodeText(stream, Len(stream))

\* A text event, an event of another session with a text that is no text
\* event, and a stop event.
C12_Witness ==
    /\ JustRead
    /\ Len(stream) = 3
    /\ stream[1].ev.type = "text"
    /\ stream[1].ev.part.text = <<"h">>
    /\ stream[1].ev.opencodeSessionID = "S2"
    /\ stream[2].ev.opencodeSessionID = "S4"
    /\ stream[3].ev.type = "step_finish"
    /\ StopPart(stream[3])
    /\ opencodeMessage = <<"h">>
    /\ threadID = "S2"
    /\ fired = <<"complete">>

(***************************************************************************)
(* C13. Gemini dialect. A Gemini event is an event that the detection      *)
(* attributes to Gemini and to no backend that is handled before it.       *)
(***************************************************************************)
IsGeminiEvent(line) ==
    /\ line.kind = "event"
    /\ ~IsOpencode(line.ev) /\ ~IsCodex(line.ev) /\ ~IsClaude(line.ev)
    /\ IsGemini(line.ev)

GeminiStream == \A i \in DOMAIN stream : IsGeminiEvent(stream[i])

\* The content of the first n events, in order.
RECURSIVE GeminiContent(_, _)
GeminiContent(lines, n) ==
    IF n = 0 THEN <<>> ELSE GeminiContent(lines, n - 1) \o lines[n].ev.content

GeminiBufferAndCompletion ==
    GeminiStream =>
        /\ geminiBuffer = GeminiContent(stream, Len(stream))
        /\ JustRead =>
               (Completes <=>
                    /\ LastLine.ev.type = "result"
                    /\ LastLine.ev.status \in {"success", "error", "complete", "failed"})
        /\ ppc = "done" => message = GeminiContent(stream, Len(stream))

(***************************************************************************)
(* C13, as amended: over any sequence of Gemini events the session ID is   *)
(* the session_id of the first event that carries one and later events do  *)
(* not change it, every event's content is appended to a running buffer in *)
(* arrival order, and completion is signalled exactly for the events with  *)
(* type "result" and status in {success, error, complete, failed}.         *)
(***************************************************************************)
C13_GeminiDialectFirstSession ==
    /\ GeminiBufferAndCompletion
    /\ GeminiStream => threadID = FirstSessionID(stream, Len(stream))

\* An init event, a message, and a result event that carries another
\* session ID and more content.
C13_Witness ==
    /\ ppc = "done"
    /\ GeminiStream
    /\ Len(stream) = 3
    /\ stream[1].ev.type = "init"
    /\ stream[1].ev.sessionID = "S1"
    /\ stream[2].ev.content = <<"h">>
    /\ stream[3].ev.type = "result"
    /\ stream[3].ev.sessionID = "S3"
    /\ stream[3].ev.content = <<"i">>
    /\ threadID = "S1"
    /\ message = <<"h", "i">>

\* C13 as stated: the session ID mirrors the session_id of the events, that
\* is, it is the session_id that the latest event with a session_id carries.
C13_GeminiDialect ==
    /\ GeminiBufferAndCompletion
    /\ GeminiStream => threadID = LastSessionID(stream, Len(stream))

(***************************************************************************)
(* C14. At the end of the stream the returned message is the first         *)
(* non-empty one of the Opencode buffer, the Gemini buffer, Claude's last  *)
(* result and Codex's last message, in this order; it is empty only when   *)
(* all four are empty.                                                     *)
(***************************************************************************)
C14_MessagePriority ==
    ppc = "done" =>
        /\ opencodeMessage # <<>> => message = opencodeMessage
        /\ (opencodeMessage = <<>> /\ geminiBuffer # <<>>) => message = geminiBuffer
        /\ (opencodeMessage = <<>> /\ geminiBuffer = <<>> /\ claudeMessage # <<>>) =>
               message = claudeMessage
        /\ (opencodeMessage = <<>> /\ geminiBuffer = <<>> /\ claudeMessage = <<>>) =>
               message = codexMessage
        /\ message = <<>> <=>
               /\ opencodeMessage = <<>> /\ geminiBuffer = <<>>
               /\ claudeMessage = <<>> /\ codexMessage = <<>>

\* Gemini, Claude and Codex each have a message of their own, Opencode has
\* none: Gemini's is returned.
C14_Witness ==
    /\ ppc = "done"
    /\ opencodeMessage = <<>>
    /\ geminiBuffer # <<>>
    /\ claudeMessage # <<>>
    /\ codexMessage # <<>>
    /\ geminiBuffer # claudeMessage
    /\ message = geminiBuffer

(***************************************************************************)
(* C15. Bad-line tolerance: every line that is not valid JSON and every    *)
(* line longer than 10 MiB is dropped with exactly one warning, changes    *)
(* neither message nor session ID, triggers no callback and never aborts   *)
(* parsing: all later lines are processed as if the bad line were absent.  *)
(***************************************************************************)
IsBadLine(line) == line.kind = "invalid" \/ TooLong(line)

\* An event that is warned of: an Opencode event whose part does not decode.
IsWarnedEvent(line) ==
    line.kind = "event" /\ IsOpencode(line.ev) /\ ~line.ev.part.object

GoodLines == SelectSeq(stream, LAMBDA line : ~IsBadLine(line))

\* One warning for each bad line (and one for each event and each read
\* error that is warned of).
BadLineWarned ==
    warnings =
        Cardinality({i \in DOMAIN stream :
                        IsBadLine(stream[i]) \/ IsWarnedEvent(stream[i])})
            + (IF readErr THEN 1 ELSE 0)

\* The session ID and the messages are those of the stream without its bad
\* lines, and a bad line calls no callback.
BadLineTransparent ==
    LET l == ParseLines(GoodLines, Len(GoodLines)) IN
    /\ threadID = l.threadID
    /\ codexMessage = l.codexMessage
    /\ claudeMessage = l.claudeMessage
    /\ geminiBuffer = l.geminiBuffer
    /\ opencodeMessage = l.opencodeMessage
    /\ (JustRead /\ IsBadLine(LastLine)) => fired = <<>>
    /\ ppc = "done" => message = MessageOf(l)

C15_BadLineTolerance == BadLineWarned /\ BadLineTransparent

(***************************************************************************)
(* C16. Protocol errors never fail a task on their own: a task whose child *)
(* exits with code 0 (no deadline having expired, no cancellation) is      *)
(* reported with exit code 0 whatever its stdout held; a task whose child  *)
(* ran is reported as failed only on a non-zero exit of the child, a       *)
(* deadline expiry or a cancellation.                                      *)
(***************************************************************************)
ChildRan == rpc = "returned" /\ proc = "live"

\* The stdout held a line that does not decode or is overlong, or no
\* completion event.
ProtocolError ==
    \/ \E i \in DOMAIN stdout : IsBadLine(stdout[i])
    \/ CompletionLine \notin Range(stdout)

ParallelModeDone == entry = "cli" /\ pc = "exit" /\ sortErr.kind = "none"

FailedTasks == {t \in TaskIDs(deps) : res[t].exit # 0}

\* The task declared last among the tasks that failed.
LastFailed == CHOOSE t \in FailedTasks : \A u \in FailedTasks : u <= t

C17_ExitCodeLastNonZero ==
    ParallelModeDone =>
        /\ exitCode = 0 <=> \A i \in DOMAIN results : results[i].exit = 0
        /\ FailedTasks # {} => exitCode = res[LastFailed].exit

\* What holds of the code: the exit code is that of the last failed result
\* in the order of the results, which is the order of the layers.
ExitCodeInResultOrder ==
    ParallelModeDone =>
        /\ exitCode = 0 <=> \A i \in DOMAIN results : results[i].exit = 0
        /\ \A i \in DOMAIN results :
               (results[i].exit # 0 /\ \A j \in DOMAIN results : j > i => results[j].exit = 0)
                   => exitCode = results[i].exit

(***************************************************************************)
(* C18. Every task that is not started because one of its dependencies     *)
(* failed still gets a TaskResult, with a non-zero exit code and an error  *)
(* that explains it, and no child is ever launched for it. The failure of  *)
(* a task cancels nothing: only the caller's context does, and             *)
(* runParallelMode has none to cancel; a task without failed dependency is *)
(* launched unless the caller cancelled.                                   *)
(***************************************************************************)
HasFailedDependency(t) == \E u \in deps[t] : res[u].exit # 0

ResultOf(t) == {results[i] : i \in {j \in DOMAIN results : results[j].id = t}}

C18_SkippedTasksReported ==
    /\ \A t \in DOMAIN res : res[t].cause = "cancelled" => ctxCancelled
    /\ entry = "cli" => ~ctxCancelled
    /\ (pc = "exit" /\ sortErr.kind = "none") =>
           \A t \in TaskIDs(deps) :
               /\ HasFailedDependency(t) =>
                      /\ t \notin launched
                      /\ ResultOf(t) = {[id |-> t, exit |-> res[t].exit, cause |-> "skipped"]}
                      /\ res[t].exit # 0
               /\ (~HasFailedDependency(t) /\ ~ctxCancelled) =>
                      /\ t \in launched
                      /\ res[t].cause \in {"ok", "failed", "timeout"}

\* One task fails, the task that depends on it is skipped, and a task that
\* does not depend on it runs to its end.
C18_Witness ==
    /\ pc = "exit"
    /\ entry = "cli"
    /\ \E f, s, u \in TaskIDs(deps) :
           /\ res[f].cause = "failed"
           /\ f \in deps[s]
           /\ res[s].cause = "skipped"
           /\ s \notin launched
           /\ deps[u] = {}
           /\ u # f
           /\ u \in launched
           /\ res[u].cause = "ok"

(***************************************************************************)
(* C19. A task list in which some task names a dependency ID that is the   *)
(* ID of no task of the batch (the block parser accepts such a list: it is *)
(* an initial state here) is rejected by the planning step with an error,  *)
(* and no task of the batch is launched.                                   *)
(***************************************************************************)
HasDangling == \E t \in DOMAIN deps : \E u \in deps[t] : u \notin DOMAIN deps

C19_DanglingRejected ==
    (pc # "start" /\ HasDangling) =>
        /\ pc = "exit"
        /\ sortErr.kind # "none"
        /\ launched = {}
        /\ \A t \in DOMAIN st : st[t] = "pending"
        /\ results = <<>>
        /\ entry = "cli" => exitCode = 1

\* A batch of two tasks: one could run, the other names an unknown ID.
C19_Witness ==
    /\ pc = "exit"
    /\ entry = "cli"
    /\ Len(deps) = 2
    /\ \E t, u \in DOMAIN deps : deps[t] = {} /\ deps[u] = {GhostID}
    /\ sortErr.kind = "dangling"
    /\ exitCode = 1
    /\ launched = {}

(***************************************************************************)
(* C20. The layering is the earliest possible and stable: layer 0 is       *)
(* exactly the set of tasks without dependencies, layer k+1 exactly the    *)
(* set of tasks all of whose dependencies lie in layers 0..k and at least  *)
(* one in layer k, and inside a layer the tasks keep the order in which    *)
(* the parser produced them. (Layers are counted from 1 here.)             *)
(***************************************************************************)
\* The tasks of the first k layers.
Upto(k) == UNION {Range(layers[j]) : j \in 1 .. k}

EarliestLayer(k) ==
    IF k = 1 THEN {t \in TaskIDs(deps) : deps[t] = {}}
    ELSE {t \in TaskIDs(deps) :
              deps[t] \subseteq Upto(k - 1) /\ deps[t] \cap Range(layers[k - 1]) # {}}

InParserOrder(layer) == \A i, j \in DOMAIN layer : i < j => layer[i] < layer[j]

RECURSIVE LastValue(_, _, _)
LastValue(meta, key, n) ==
    IF n = 0 THEN <<>>
    ELSE IF meta[n].colon /\ meta[n].key = key THEN TrimSpace(meta[n].value)
    ELSE LastValue(meta, key, n - 1)

ValueOf(b, key) == LastValue(b.meta, key, Len(b.meta))

HasMetaKey(b, key) == \E i \in DOMAIN b.meta : b.meta[i].colon /\ b.meta[i].key = key

\* The blocks of the document that hold text, in document order.
NonBlank(d) == SelectSeq(d, LAMBDA b : ~BlankBlock(b))

ParseDone == bpc \in {"done", "built"}

(***************************************************************************)
(* C21. Every ParallelConfig that ParseParallelConfig returns without      *)
(* error has at least one task, its tasks in document order, IDs that are  *)
(* non-empty and pairwise distinct, non-empty content and no workdir "-".  *)
(* On empty input, a block without ---CONTENT---, a missing id, empty      *)
(* content, a duplicate id or a workdir "-" it returns an error and no     *)
(* config.                                                                 *)
(***************************************************************************)
WellFormedConfig(tasks, d) ==
    /\ Len(tasks) >= 1
    /\ Len(tasks) = Len(NonBlank(d))
    /\ \A i \in DOMAIN tasks :
          /\ tasks[i].ID = ValueOf(NonBlank(d)[i], "id")
          /\ tasks[i].Task = TrimSpace(NonBlank(d)[i].content)
          /\ tasks[i].ID # <<>>
          /\ tasks[i].Task # <<>>
          /\ tasks[i].WorkDir # <<"-">>
    /\ \A i, j \in DOMAIN tasks : tasks[i].ID = tasks[j].ID => i = j

BadBlock(b) ==
    \/ ~b.sep
    \/ ValueOf(b, "id") = <<>>
    \/ TrimSpace(b.content) = <<>>
    \/ \E i \in DOMAIN b.meta :
          /\ b.meta[i].colon
          /\ b.meta[i].key = "workdir"
          /\ TrimSpace(b.meta[i].value) = <<"-">>

BadDocument(d) ==
    \/ d = <<>>
    \/ \E i \in DOMAIN NonBlank(d) : BadBlock(NonBlank(d)[i])
    \/ \E i, j \in DOMAIN NonBlank(d) :
          i # j /\ ValueOf(NonBlank(d)[i], "id") = ValueOf(NonBlank(d)[j], "id")

C21_ParallelConfigWellFormed ==
    ParseDone =>
        /\ configErr = "" <=> ~parallelConfig.nil
        /\ configErr # "" => parallelConfig = NilConfig
        /\ configErr = "" => WellFormedConfig(parallelConfig.Tasks, doc)
        /\ BadDocument(doc) => configErr # ""

\* Two tasks around a blank block, the second ID padded in the document.
C21_Witness ==
    /\ ParseDone
    /\ configErr = ""
    /\ Len(parallelConfig.Tasks) = 2
    /\ Len(doc) = 3
    /\ BlankBlock(doc[2])
    /\ parallelConfig.Tasks[2].ID = <<"b">>

(***************************************************************************)
(* C22. Every parsed task has mode new or resume; its mode is resume       *)
(* exactly when its block holds a session_id key, and then its session ID  *)
(* is not empty: a block whose session_id is blank is a parse error. No    *)
(* backend is invoked in resume mode with an empty session ID.             *)
(***************************************************************************)
ModeFollowsSessionID(task, b) ==
    /\ task.Mode \in {"new", "resume"}
    /\ task.Mode = "resume" <=> HasMetaKey(b, "session_id")
    /\ task.Mode = "resume" => TrimSpace(task.SessionID) # <<>>
    /\ task.Mode = "new" => task.SessionID = <<>>

BlankSessionID(b) ==
    b.sep /\ HasMetaKey(b, "session_id") /\ ValueOf(b, "session_id") = <<>>

C22_ModeSessionInvariant ==
    ParseDone =>
        /\ configErr = "" =>
              \A i \in DOMAIN parallelConfig.Tasks :
                  ModeFollowsSessionID(parallelConfig.Tasks[i], NonBlank(doc)[i])
        /\ (\E i \in DOMAIN doc : BlankSessionID(doc[i])) => configErr # ""
        /\ lastArgs.resume # "" => TrimSpace(lastArgs.sessionID) # <<>>

\* The second task resumes session s with Claude; the first one is new.
C22_Witness ==
    /\ bpc = "built"
    /\ Len(parallelConfig.Tasks) = 2
    /\ parallelConfig.Tasks[1].Mode = "new"
    /\ parallelConfig.Tasks[2].Mode = "resume"
    /\ lastArgs.backend = "claude"
    /\ lastArgs.resume = "-r"
    /\ lastArgs.sessionID = <<"s">>

(***************************************************************************)
(* C23. In a block with an agent key the preset fills backend, model,      *)
(* reasoning_effort and prompt_file only where the block left them unset:  *)
(* a value the block gives for one of these keys, before or after the      *)
(* agent key, is never overridden. An agent name that is empty or holds a  *)
(* character other than ASCII letters, digits, '-' and '_' is a parse      *)
(* error.                                                                  *)
(***************************************************************************)
PresetKeys == {"backend", "model", "reasoning_effort", "prompt_file"}

FieldOf(task, key) ==
    IF key = "backend" THEN task.Backend
    ELSE IF key = "model" THEN task.Model
    ELSE IF key = "reasoning_effort" THEN task.ReasoningEffort
    ELSE task.PromptFile

PresetOf(agent, key) ==
    LET r == ResolveAgentConfig(agent) IN
    IF key = "backend" THEN r.backend
    ELSE IF key = "model" THEN r.model
    ELSE IF key = "reasoning_effort" THEN r.reasoning
    ELSE r.promptFile

\* The preset fills key where the block is silent and nowhere else.
PresetFills(task, b, key) ==
    FieldOf(task, key) =
        IF ValueOf(b, key) # <<>> THEN ValueOf(b, key)
        ELSE PresetOf(ValueOf(b, "agent"), key)

BadAgentName(name) ==
    name = <<>> \/ \E i \in DOMAIN name : name[i] \notin AgentNameChars

AgentNamesChecked ==
    (\E i \in DOMAIN doc :
        doc[i].sep /\ HasMetaKey(doc[i], "agent")
            /\ BadAgentName(ValueOf(doc[i], "agent"))) => configErr # ""

PresetFillsKeys(keys) ==
    (ParseDone /\ configErr = "") =>
        \A i \in DOMAIN parallelConfig.Tasks : \A key \in keys :
            HasMetaKey(NonBlank(doc)[i], "agent") =>
                PresetFills(parallelConfig.Tasks[i], NonBlank(doc)[i], key)

C23_PresetFillsUnset ==
    /\ ParseDone => AgentNamesChecked
    /\ PresetFillsKeys(PresetKeys)

\* What holds of the three keys the parser knows.
PresetFillsKnownKeys ==
    /\ ParseDone => AgentNamesChecked
    /\ PresetFillsKeys(PresetKeys \ {"prompt_file"})

\* A block gives prompt_file f and names agent p, and the task gets the
\* prompt file of p.
PromptFileOverridden ==
    /\ ParseDone
    /\ configErr = ""
    /\ ValueOf(doc[1], "prompt_file") = <<"f">>
    /\ ValueOf(doc[1], "agent") = <<"p">>
    /\ parallelConfig.Tasks[1].PromptFile = <<"~", "p">>

(***************************************************************************)
(* Notions of the single-task run the claims are stated with.              *)
(***************************************************************************)
\* The backend was launched: runSingleMode got as far as BuildArgs.
Launched == spc = "running" \/ (spc = "exit" /\ codexArgs # NoArgs)

\* The task text holds one of the characters of stdinSpecialChars.
HasSpecialChar(text) ==
    \E i \in DOMAIN text :
       text[i] \in {"\n", "BACKSLASH", "DQUOTE", "SQUOTE", "BACKTICK", "$"}

\* The stdin heuristic with p for "stdin is piped".
StdinHeuristic(p) ==
    Launched =>
       /\ useStdin <=> \/ p
                       \/ singleCfg.ExplicitStdin
                       \/ ByteLen(singleTask) > 800
                       \/ HasSpecialChar(singleTask)
       /\ singleTarget = <<"-">> <=> useStdin
       /\ ~useStdin => singleTarget = singleTask
       /\ codexArgs.target = IF backendName = "opencode" /\ useStdin THEN <<>>
                             ELSE singleTarget

\* C24 as stated: useStdin is true iff stdin is piped, or the task is the
\* explicit "-", or the task text is longer than 800 bytes, or it holds a
\* newline, backslash, double quote, single quote, backtick or dollar; the
\* target argument is "-" iff useStdin, the task text otherwise.
C24_StdinIffPiped == StdinHeuristic(~isTerminal)

\* C24, amended: in the place of "stdin is piped" stands "stdin is not a
\* terminal and the read of it gave data"; a pipe that holds nothing does
\* not make useStdin true.
C24_StdinHeuristic == StdinHeuristic(~isTerminal /\ stdinData # <<>>)

\* A short plain task on the command line is launched through argv while
\* another one, with data in the pipe, goes through stdin.
C24_Witness ==
    /\ Launched
    /\ ~isTerminal
    /\ stdinData # <<>>
    /\ ~singleCfg.ExplicitStdin
    /\ singleTask = stdinData
    /\ useStdin
    /\ singleTarget = <<"-">>

\* An empty pipe: stdin is not a terminal, and the task goes through argv.
EmptyPipeUsesArgv ==
    /\ Launched
    /\ ~isTerminal
    /\ stdinData = <<>>
    /\ ~useStdin
    /\ singleTarget = singleTask

\* A prompt file is set for the run.
PromptFileSet == TrimSpace(singleCfg.PromptFile) # <<>>

\* The task text before the prompt file is put before it: what stdin gave
\* for the explicit "-" or for a pipe with data, the argument otherwise.
TaskBody ==
    IF singleCfg.ExplicitStdin \/ (~isTerminal /\ stdinData # <<>>) THEN stdinData
    ELSE singleCfg.Task

\* body is data without its trailing carriage returns and line feeds.
StrippedOf(body, data) ==
    /\ Len(body) <= Len(data)
    /\ body = SubSeq(data, 1, Len(body))
    /\ \A i \in Len(body) + 1 .. Len(data) : data[i] \in {"\r", "\n"}
    /\ body # <<>> => body[Len(body)] \notin {"\r", "\n"}

\* The prompt file was read and the run went on.
PromptRead == PromptFileSet /\ ~promptOut.err /\ (spc \in {"prompt", "running"} \/ Launched)

\* C25: with a prompt file, the text delivered is "<agent-prompt>", a
\* newline, the body of the file without trailing CR/LF, a newline,
\* "</agent-prompt>", two newlines and the task; the stdin decision is
\* taken on this text, so the task goes through stdin with target "-";
\* a prompt file that cannot be read ends the run with exit code 1 and no
\* backend is launched.
C25_PromptFileWrap ==
    /\ PromptRead =>
          \E n \in 0 .. Len(promptOut.data) :
             LET body == SubSeq(promptOut.data, 1, n) IN
             /\ StrippedOf(body, promptOut.data)
             /\ singleTask = <<"<agent-prompt>", "\n">> \o body
                               \o <<"\n", "</agent-prompt>", "\n", "\n">> \o TaskBody
    /\ PromptRead /\ Launched =>
          /\ useStdin
          /\ singleTarget = <<"-">>
          /\ codexArgs.target = IF backendName = "opencode" THEN <<>> ELSE <<"-">>
    /\ PromptFileSet /\ promptOut.err =>
          /\ ~Launched
          /\ spc = "exit"
          /\ singleExit = 1
          /\ codexArgs = NoArgs

\* A short plain task with a prompt file that ends in line ends was
\* launched, and another run stopped at an unreadable prompt file.
C25_Witness ==
    /\ PromptRead
    /\ Launched
    /\ promptOut.data = <<"P", "\n", "Q", "\r", "\n", "\n">>
    /\ TaskBody = <<"t">>
    /\ singleTask = <<"<agent-prompt>", "\n", "P", "\n", "Q", "\n", "</agent-prompt>",
                      "\n", "\n", "t">>
    /\ useStdin

PromptFileUnreadable == PromptFileSet /\ promptOut.err /\ spc = "exit" /\ singleExit = 1

(***************************************************************************)
(* Notions of buildSingleConfig the claims are stated with.                *)
(***************************************************************************)
\* buildSingleConfig returned a Config.
ConfigBuilt == spc = "config" /\ cfgErr = ""

\* The settings that have several sources, and their fields in the Config.
Settings == {"backend", "model", "reasoning-effort", "prompt-file"}

SettingOf(c, n) ==
    IF n = "backend" THEN c.Backend
    ELSE IF n = "model" THEN c.Model
    ELSE IF n = "reasoning-effort" THEN c.ReasoningEffort
    ELSE c.PromptFile

PresetValue(agentName, n) ==
    LET r == ResolveAgentConfig(agentName) IN
    IF n = "backend" THEN r.backend
    ELSE IF n = "model" THEN r.model
    ELSE IF n = "reasoning-effort" THEN r.reasoning
    ELSE r.promptFile

BuiltInDefault(n) == IF n = "backend" THEN <<"c">> ELSE <<>>

\* The flag --n was given, and its value.
FlagGiven(n) == n \in ParseFlags(rawArgv, 1, NoFlags).changed

FlagValue(n) == TrimSpace(ParseFlags(rawArgv, 1, NoFlags).value[n])

\* The indices of the tokens of rawArgv spelled --n or --n=...
Occurrences(n) ==
    {i \in DOMAIN rawArgv : rawArgv[i].kind \in {"flag", "flageq"} /\ rawArgv[i].name = n}

\* --agent and --n are both given and the last --agent token comes after
\* the last --n token.
AgentIsLater(n) ==
    /\ FlagGiven("agent")
    /\ FlagGiven(n)
    /\ \E i \in Occurrences("agent") : \A j \in Occurrences(n) : i > j

\* The value of setting n by the precedence flag, environment, config
\* file, preset, default.
ByPrecedence(n) ==
    IF FlagGiven(n) THEN FlagValue(n)
    ELSE IF TrimSpace(osEnv[n]) # <<>> THEN TrimSpace(osEnv[n])
    ELSE IF TrimSpace(confFile[n]) # <<>> THEN TrimSpace(confFile[n])
    ELSE IF singleCfg.Agent # <<>> /\ TrimSpace(PresetValue(singleCfg.Agent, n)) # <<>>
    THEN TrimSpace(PresetValue(singleCfg.Agent, n))
    ELSE BuiltInDefault(n)

\* The settings of names follow the precedence, the position-aware case of
\* --agent after the flag left aside.
PrecedenceOf(names) ==
    ConfigBuilt =>
       \A n \in names : ~AgentIsLater(n) => SettingOf(singleCfg, n) = ByPrecedence(n)

\* C27: each of backend, model, reasoning_effort and prompt_file is
\* resolved with the precedence explicit flag > CODEAGENT_ environment
\* variable > config file > agent preset > built-in default.
C27_Precedence == PrecedenceOf(Settings)

\* What holds: the precedence of reasoning_effort and prompt_file, and
\* that of backend and model when no agent is named.
PrecedenceApartFromPreset ==
    /\ PrecedenceOf({"reasoning-effort", "prompt-file"})
    /\ singleCfg.Agent = <<>> => PrecedenceOf({"backend", "model"})
    /\ ConfigBuilt =>
          \A n \in {"backend", "model"} :
             FlagGiven(n) /\ ~AgentIsLater(n) => SettingOf(singleCfg, n) = FlagValue(n)

\* The environment sets the backend and the model, --agent p is the only
\* flag, and the Config has the backend and the model of the preset.
PresetBeatsEnvironment ==
    /\ ConfigBuilt
    /\ rawArgv = <<Flag("agent"), Word(<<"p">>), TaskWord>>
    /\ osEnv["backend"] = <<"e">>
    /\ osEnv["model"] = <<"e">>
    /\ singleCfg.Backend = <<"g">>
    /\ singleCfg.Model = <<"m">>

\* C28: when --agent and --backend (--model) are both given, the one whose
\* last token comes later in argv decides the backend (the model): the
\* value of the preset when --agent is later, the value of the flag when
\* the flag is later.
C28_PositionAwareOverride ==
    ConfigBuilt /\ FlagGiven("agent") =>
       \A n \in {"backend", "model"} :
          FlagGiven(n) =>
             SettingOf(singleCfg, n) =
                IF AgentIsLater(n) THEN TrimSpace(PresetValue(singleCfg.Agent, n))
                ELSE FlagValue(n)

\* --backend is given before and after --agent: its last token is the
\* later one and its last value is the backend.
C28_Witness ==
    /\ ConfigBuilt
    /\ rawArgv = <<FlagEq("backend", <<"l">>), FlagEq("agent", <<"p">>),
                   FlagEq("backend", <<"o">>), TaskWord>>
    /\ singleCfg.Agent = <<"p">>
    /\ singleCfg.Backend = <<"o">>

\* --agent after --backend and --model: the Config has the backend and the
\* model of the preset.
AgentLastWins ==
    /\ ConfigBuilt
    /\ AgentIsLater("backend")
    /\ AgentIsLater("model")
    /\ FlagValue("backend") = <<"l">>
    /\ FlagValue("model") = <<"n">>
    /\ singleCfg.Backend = <<"g">>
    /\ singleCfg.Model = <<"m">>

\* A resumed run hands a session to the backend: Mode "resume" comes with
\* a non-blank session ID, and the argv of the backend resumes it.
SingleResumeHasSession ==
    /\ singleCfg.Mode = "resume" => TrimSpace(singleCfg.SessionID) # <<>>
    /\ Launched =>
          /\ codexArgs.resume # "" <=> singleCfg.Mode = "resume"
          /\ codexArgs.resume # "" => codexArgs.sessionID = singleCfg.SessionID
          /\ codexArgs.resume = "" => codexArgs.sessionID = <<>>

(***************************************************************************)
(* Notions of the prompt file the claims are stated with.                  *)
(***************************************************************************)
\* The call was made with a path that is not blank.
PromptCalled == fpc = "done" /\ promptCall.path.kind # "blank"

\* The absolute form of the path of the call.
AbsoluteForm ==
    LET path == promptCall.path IN
    Clean(<<>>, IF path.kind = "tilde" THEN Home \o path.comps
                ELSE IF path.kind = "rel" THEN Cwd \o path.comps
                ELSE path.comps)

\* The form of a path with the links followed.
ResolvedForm(p) == EvalSymlinks(promptCall.fs, <<>>, p, MaxLinks)

\* p is one of the two directories or lies below one of them.
UnderAllowed(p) ==
    \/ isWithinDir(p, Home \o <<".claude">>)
    \/ isWithinDir(p, Home \o <<".codeagent", "agents">>)

\* p lies in one of the two directories as the file system has them, that
\* is, below the resolved form of one of them.
UnderResolvedAllowed(p) ==
    \E d \in {Home \o <<".claude">>, Home \o <<".codeagent", "agents">>} :
       ResolvedForm(d).ok /\ isWithinDir(p, ResolvedForm(d).path)

\* Without the allow-outside flag: content comes back only for a path that
\* is confined, and a path that is not confined gets an error and no read,
\* and a logged warning when logged is required.
Confinement(Resolved(_), mustLog) ==
    PromptCalled /\ ~promptCall.allowOutsideClaudeDir =>
       LET confined == /\ UnderAllowed(AbsoluteForm)
                       /\ ResolvedForm(AbsoluteForm).ok => Resolved(ResolvedForm(AbsoluteForm).path)
       IN  /\ ~promptRet.err => confined /\ ResolvedForm(AbsoluteForm).ok
           /\ ~confined =>
                 /\ promptRet.err
                 /\ promptRet.data = <<>>
                 /\ ~promptRet.read
                 /\ mustLog => promptRet.warned # ""

\* C26 as stated: without the allow-outside flag content is returned only
\* for a path whose absolute form and whose symlink-resolved form lie
\* under <home>/.claude or <home>/.codeagent/agents; every other path gets
\* an error, a logged violation and no read.
C26_PromptFileConfined == Confinement(UnderAllowed, TRUE)

\* C26, amended: the symlink-resolved form is held against the two
\* directories with their own links followed, and the violation is logged
\* when the home directory is known.
C26_PromptFileConfinement == Confinement(UnderResolvedAllowed, ~promptCall.fs.homeErr)

\* A link inside .claude that leads out is refused after the links were
\* followed.
C26_Witness ==
    /\ PromptCalled
    /\ ~promptCall.allowOutsideClaudeDir
    /\ promptCall.path = RawPath("tilde", <<".claude", "out", "f">>)
    /\ ResolvedForm(AbsoluteForm).ok
    /\ ResolvedForm(AbsoluteForm).path = Home \o <<"x", "f">>
    /\ promptRet.err
    /\ ~promptRet.read
    /\ promptRet.warned = "refusing (resolved)"

\* .claude is a link to a directory elsewhere: the file in it is read,
\* though its resolved path is not below <home>/.claude.
ReadThroughLinkedBase ==
    /\ PromptCalled
    /\ ~promptCall.allowOutsideClaudeDir
    /\ promptCall.path = RawPath("tilde", <<".claude", "f">>)
    /\ ResolvedForm(AbsoluteForm).path = <<"d", "c", "f">>
    /\ ~promptRet.err
    /\ promptRet.data = <<"A">>

\* The home directory is unknown: the call fails and nothing is logged.
HomeUnknownNotLogged ==
    /\ PromptCalled
    /\ ~promptCall.allowOutsideClaudeDir
    /\ promptCall.fs.homeErr
    /\ promptRet.err
    /\ ~promptRet.read
    /\ promptRet.warned = ""

(***************************************************************************)
(* Notions of the log cleanup the claims are stated with.                  *)
(***************************************************************************)
\* The entry of last was decided, and it is a candidate: its name matches
\* the pattern and bears a PID.
CandidateDecided ==
    /\ last.decision \notin {"none", "read"}
    /\ last.f.prefix = "codeagent-wrapper"
    /\ last.f.ext = "log"
    /\ last.f.tok.kind = "num"
    /\ last.f.tok.n > 0

\* What the inspection of the PID said.
ReportedNotRunning ==
    \/ last.answers.px.err = "nil" /\ ~last.answers.px.exists
    \/ last.answers.px.err = "ErrorProcessNotRunning"

ReportedRunning == ~ReportedNotRunning

StartTimeKnown == last.answers.ct.err = "nil" /\ last.answers.ct.ms > 0

\* The entry is a regular file inside tempDir, and the stat of it succeeds.
RegularInside ==
    /\ ~last.f.symlink
    /\ last.f.resolved = "inside"
    /\ ~last.answers.statFails1

\* C29: a candidate whose PID is not a running process is deleted, and a
\* candidate whose PID runs but whose mtime is older than the start time
\* of that process is held to be a reused PID and deleted, when the file
\* is a regular file inside tempDir and its unlink succeeds.
C29_OrphansReclaimed ==
    CandidateDecided /\ RegularInside /\ last.answers.rm = "ok" =>
       /\ ReportedNotRunning => last.decision = "deleted"
       /\ (/\ ReportedRunning
           /\ StartTimeKnown
           /\ ~last.answers.statFails2
           /\ last.f.mtime < last.answers.ct.ms) => last.decision = "deleted"

\* The log of a dead PID was deleted.
C29_Witness ==
    /\ CandidateDecided
    /\ RegularInside
    /\ ~last.alive
    /\ ReportedNotRunning
    /\ last.decision = "deleted"
    /\ last.removeCalled
    /\ stats.deleted > 0

\* A log written before the running process of its PID started was
\* deleted.
ReusedPidReclaimed ==
    /\ CandidateDecided
    /\ last.alive
    /\ ReportedRunning
    /\ StartTimeKnown
    /\ last.f.mtime < last.start
    /\ last.decision = "deleted"

\* An inspection error: the check of the PID failed with something else
\* than "not running", or the start time of a process held to be running
\* cannot be told, or a stat of the file failed.
PidCheckFailed == last.answers.px.err = "EPERM"

StartTimeUnknown == ReportedRunning /\ ~StartTimeKnown

StatFailed ==
    \/ last.answers.statFails1
    \/ ReportedRunning /\ last.answers.statFails2

Kept == last.decision = "kept" /\ ~last.removeCalled

\* C30: whenever the liveness of the PID of a log cannot be established
\* because of an inspection error (the check of the PID fails, the start
\* time cannot be told, a stat of the file fails), the process is taken
\* to be live and the file is kept.
C30_ConservativeLiveness ==
    CandidateDecided =>
       /\ PidCheckFailed /\ ~StartTimeKnown => Kept
       /\ StartTimeUnknown => Kept
       /\ StatFailed => Kept

\* What holds: the file is kept on an inspection error unless the start
\* time is unknown and the log is older than StaleAge.
ConservativeUnlessStale ==
    CandidateDecided =>
       /\ StatFailed => Kept
       /\ (StartTimeUnknown /\ LogNow - last.f.mtime <= StaleAge) => Kept

\* The start time of a running process cannot be told, its log is old, and
\* the log is deleted.
StaleLogOfUnknownStartDeleted ==
    /\ CandidateDecided
    /\ last.alive
    /\ StartTimeUnknown
    /\ LogNow - last.f.mtime > StaleAge
    /\ last.decision = "deleted"

\* The entry of last matches the pattern of the glob.
MatchesPattern(f) ==
    f.prefix = "codeagent-wrapper" /\ f.ext = "log" /\ f.tok.kind \in {"empty", "word", "num"}

\* The step decides the entry that was read.
EntryDecided == last.decision = "read" /\ last'.decision # "read"

(***************************************************************************)
(* C31. An unlink failure on one candidate does not stop the scan: the     *)
(* candidates that remain are still processed, the file whose unlink       *)
(* failed is counted under errors and neither as deleted nor as kept, and  *)
(* cleanupOldLogs returns an error that joins every unlink failure.        *)
(***************************************************************************)
UnlinkFailureCounted ==
    (EntryDecided /\ last'.decision = "error") =>
       /\ last'.answers.rm = "error"
       /\ stats'.errors = stats.errors + 1
       /\ stats'.deleted = stats.deleted
       /\ stats'.kept = stats.kept
       /\ stats'.deletedFiles = stats.deletedFiles
       /\ stats'.keptFiles = stats.keptFiles
       /\ Len(removeErr') = Len(removeErr) + 1
       /\ lpc' = "scan"
       /\ unvisited' = unvisited

ScanGoesOn ==
    /\ last.decision = "error" => lpc = "scan"
    /\ (lpc = "done" /\ cleanupErr # "glob") => unvisited = 0 /\ last.decision = "none"
    /\ Len(removeErr) = stats.errors
    /\ cleanupErr # "glob" => (cleanupErr = "remove" <=> stats.errors > 0)

C31_UnlinkFailureDoesNotStop == []ScanGoesOn /\ [][UnlinkFailureCounted]_vars

\* After a failed unlink the scan went on and deleted another file.
C31_Witness ==
    /\ last.decision = "deleted"
    /\ stats.errors = 1
    /\ stats.deleted = 1
    /\ removeErr # <<>>
    /\ cleanupErr = "remove"

(***************************************************************************)
(* C32. In every summary each scanned candidate is counted once, as        *)
(* deleted, kept or error: scanned = deleted + kept + errors, the lists    *)
(* are as long as their counts, and a candidate whose name bears no        *)
(* positive PID is kept. When the glob fails the summary is all zero, the  *)
(* lists are empty, an error is returned and neither a process check nor   *)
(* an unlink was made.                                                     *)
(***************************************************************************)
SummaryAddsUp ==
    /\ stats.scanned = stats.deleted + stats.kept + stats.errors
    /\ Len(stats.deletedFiles) = stats.deleted
    /\ Len(stats.keptFiles) = stats.kept
    /\ calls.remove = stats.deleted + stats.errors
    /\ cleanupErr = "glob" =>
          /\ lpc = "done"
          /\ stats = ZeroStats
          /\ calls.running = 0
          /\ calls.remove = 0
          /\ last.decision = "none"

CountedOnce ==
    EntryDecided =>
       /\ calls'.running <= calls.running + 1
       /\ IF MatchesPattern(last.f)
          THEN /\ stats'.scanned = stats.scanned + 1
               /\ last'.decision \in {"deleted", "kept", "error"}
               /\ stats'.deleted = stats.deleted + (IF last'.decision = "deleted" THEN 1 ELSE 0)
               /\ stats'.kept = stats.kept + (IF last'.decision = "kept" THEN 1 ELSE 0)
               /\ stats'.errors = stats.errors + (IF last'.decision = "error" THEN 1 ELSE 0)
               /\ (last.f.tok.kind # "num" \/ last.f.tok.n <= 0) =>
                     /\ last'.decision = "kept"
                     /\ calls' = calls
          ELSE stats' = stats /\ calls' = calls

C32_CleanupAccounting == []SummaryAddsUp /\ [][CountedOnce]_vars

\* A summary of two candidates: one kept for its name, one deleted.
C32_Witness ==
    /\ lpc = "done"
    /\ cleanupErr = "nil"
    /\ stats.scanned = 2
    /\ stats.kept = 1
    /\ stats.deleted = 1
    /\ stats.keptFiles = <<"nopid">>
    /\ calls.running = 1

\* The glob failed.
GlobFailed == lpc = "done" /\ cleanupErr = "glob" /\ stats = ZeroStats

(***************************************************************************)
(* C33: the lifecycle of the wrapper's log file                            *)
(***************************************************************************)

\* The run created its logger.
LoggerCreated == kpc \in {"fn", "deferred", "closed", "done"} /\ logFile # "absent"

\* The wrapper told the user the path of its log file.
PathReported ==
    \E i \in 1 .. Len(stderrOut) : stderrOut[i].kind = "log-file-deleted"

\* C33: the log file still exists once the logger is closed; it is removed
\* only when the run exits with code 0; after a run that ended with a
\* non-zero exit code the log file is still present at the path that was
\* reported to the user.
C33_LogFileLifecycle ==
    /\ kpc = "closed" => logFile = "present"
    /\ logFile = "removed" => runExit = 0
    /\ (kpc = "done" /\ LoggerCreated /\ runExit # 0) => logFile = "present"

\* What holds of the log file: Close keeps it, and it is removed by nothing
\* but the end of the deferred function, whatever the exit code of the run.
C33_KeptByClose ==
    /\ kpc \in {"fn", "deferred", "closed"} => logFile = "present"
    /\ logFile = "removed" => kpc = "done"

\* A run ended with a non-zero exit code, its recent errors and the path of
\* the log file were printed, and the log file is gone.
ReportedLogFileRemoved ==
    /\ kpc = "done"
    /\ runExit # 0
    /\ PathReported
    /\ logFile = "removed"

(***************************************************************************)
(* C34: the recent-error cache                                             *)
(***************************************************************************)

\* The messages of the WARN and ERROR calls made so far, in the order of the
\* calls.
RECURSIVE WarnAndErrorUpTo(_)
WarnAndErrorUpTo(k) ==
    IF k = 0 THEN <<>>
    ELSE IF logged[k] \in {"WARN", "ERROR"}
           THEN Append(WarnAndErrorUpTo(k - 1), MessageAt(k))
           ELSE WarnAndErrorUpTo(k - 1)

\* The tail of a sequence from index i on.
FromIndex(s, i) == [j \in 1 .. (Len(s) - i + 1) |-> s[i + j - 1]]

Smaller(a, b) == IF a < b THEN a ELSE b

\* The cache is the tail of the WARN and ERROR messages logged so far.
CacheIsRecentTail ==
    LET all  == WarnAndErrorUpTo(Len(logged))
        over == Len(all) - maxErrorEntries
    IN  /\ errorEntries = IF over > 0 THEN FromIndex(all, over + 1) ELSE all
        /\ Len(errorEntries) <= maxErrorEntries

\* A call of ExtractRecentErrors answers from the cache it finds.
ExtractAnswers ==
    (kpc = "fn" /\ (extractCall' # extractCall \/ extractRet' # extractRet)) =>
        LET n    == extractCall'.n
            take == Smaller(n, Len(errorEntries))
        IN  IF extractCall'.recv = "nil" \/ n <= 0 \/ Len(errorEntries) = 0
              THEN extractRet'.isNil
              ELSE /\ ~extractRet'.isNil
                   /\ extractRet'.entries
                        = FromIndex(errorEntries, Len(errorEntries) - take + 1)

\* C34: the cache holds exactly the WARN and ERROR messages logged, in the
\* order they were logged, limited to the most recent maxErrorEntries;
\* ExtractRecentErrors(n) returns the last min(n, cached) of them in that
\* order, and nil when n <= 0, when nothing is cached, or on a nil logger.
C34_RecentErrorCache == []CacheIsRecentTail /\ [][ExtractAnswers]_vars

\* More WARN and ERROR messages were logged than the cache holds, with INFO
\* or DEBUG messages among the calls, and fewer entries were asked for than
\* are cached.
C34_Witness ==
    /\ kpc = "fn"
    /\ Len(WarnAndErrorUpTo(Len(logged))) > maxErrorEntries
    /\ \E i \in 1 .. Len(logged) : logged[i] \in {"INFO", "DEBUG"}
    /\ extractCall.recv = "logger"
    /\ extractCall.n > 0
    /\ extractCall.n < Len(errorEntries)
    /\ ~extractRet.isNil

\* ExtractRecentErrors returned nil on a logger that holds entries, for an n
\* that is not positive.
NilForNonPositive ==
    /\ kpc = "fn"
    /\ extractCall.recv = "logger"
    /\ extractCall.n <= 0
    /\ Len(errorEntries) > 0
    /\ extractRet.isNil

(***************************************************************************)
(* C35: multi-writer safety of the logger                                  *)
(***************************************************************************)

\* The number of lines of the file that carry the entry.
LinesOf(e) == Cardinality({i \in 1 .. Len(fileLines) : fileLines[i] = e})

\* C35: once Flush has returned, every message logged before the Flush is
\* in the log file exactly once, as one line; no line of the file is there
\* twice or is anything but a logged message; the lines of one goroutine
\* are in the order the goroutine logged them.
C35_MultiWriterSafe ==
    /\ flushPc = "returned" => \A e \in beforeFlush.entries : LinesOf(e) = 1
    /\ \A i \in 1 .. Len(fileLines) :
          /\ fileLines[i] \in LoggedSoFar
          /\ LinesOf(fileLines[i]) = 1
    /\ \A i \in 1 .. Len(fileLines) : \A k \in 1 .. Len(fileLines) :
          (i < k /\ fileLines[i].g = fileLines[k].g) => fileLines[i].j < fileLines[k].j

\* A Flush returned after both goroutines had logged, their messages
\* interleaved in the file, while a message logged after the call is still
\* on its way.
C35_Witness ==
    /\ flushPc = "returned"
    /\ \A g \in Writers : \E e \in beforeFlush.entries : e.g = g
    /\ Len(fileLines) >= 3
    /\ fileLines[1].g # fileLines[2].g
    /\ LoggedSoFar # beforeFlush.entries

(***************************************************************************)
(* C36: the /do stop hook                                                  *)
(***************************************************************************)

\* The fields of the state file as the hook reads them.
ActiveTruthy == ToLower(hookIn.file.active) \in {"true", "1", "yes", "on"}

CurrentPhase ==
    IF hookIn.file.current_phase.isDigits
      THEN hookIn.file.current_phase.val ELSE defaultCurrentPhase

MaxPhases ==
    IF hookIn.file.max_phases.isDigits
      THEN hookIn.file.max_phases.val ELSE defaultMaxPhases

Promise ==
    IF hookIn.file.completion_promise = ""
      THEN defaultPromise ELSE hookIn.file.completion_promise

\* The promise occurs in the text.
Occurs(text) == \E i \in 1 .. Len(text.lines) : text.lines[i] = Promise

Blocked == hookOut.stdout # ""

\* C36: the hook blocks the exit exactly when the state file exists, its
\* active field is truthy, and it is not the case that current_phase has
\* reached max_phases and the completion promise occurs in the stdin payload
\* or in the body of the state file; otherwise it prints nothing. Its exit
\* status is 0, and a state file whose active is false lets the session stop.
C36_StopHookBlocks ==
    hpc = "done" =>
       /\ Blocked <=>
            /\ hookIn.file.exists
            /\ ActiveTruthy
            /\ ~(CurrentPhase >= MaxPhases
                 /\ (Occurs(hookIn.payload) \/ Occurs(hookIn.file.body)))
       /\ hookOut.status = 0
       /\ hookIn.file.active = "false" => ~Blocked

\* What holds of the hook: the same, for a payload and a body that fit the
\* pipe to grep or are not cut off; whatever the texts, nothing is printed
\* without a state file with a truthy active field, a loop that has not
\* reached its last phase is blocked, and the exit status is 0.
C36_BlocksUnlessCut ==
    hpc = "done" =>
       /\ (~hookIn.sigpipeIn /\ ~hookIn.sigpipeBody) =>
            (Blocked <=>
               /\ hookIn.file.exists
               /\ ActiveTruthy
               /\ ~(CurrentPhase >= MaxPhases
                    /\ (Occurs(hookIn.payload) \/ Occurs(hookIn.file.body))))
       /\ Blocked => (hookIn.file.exists /\ ActiveTruthy)
       /\ (hookIn.file.exists /\ ActiveTruthy /\ CurrentPhase < MaxPhases) => Blocked
       /\ hookOut.status = 0

\* The loop reached its last phase and the promise occurs in the stdin
\* payload, and the hook blocked the exit.
BlockedDespitePromise ==
    /\ hpc = "done"
    /\ hookIn.file.exists
    /\ ActiveTruthy
    /\ CurrentPhase >= MaxPhases
    /\ Occurs(hookIn.payload)
    /\ Blocked

(***************************************************************************)
(* C37: one dialect handler per event                                      *)
(***************************************************************************)

DialectOrder == <<"opencode", "codex", "claude", "gemini">>

\* The event satisfies the detection rule of the dialect.
Satisfies(e, d) ==
    CASE d = "opencode" -> e.opencodeSessionID # "" /\ e.part.present
      [] d = "codex" ->
           \/ e.threadID # ""
           \/ e.item.present /\ e.item.object /\ e.item.type # ""
           \/ e.type \in {"turn.started", "turn.completed"}
      [] d = "claude" ->
           \/ e.subtype # ""
           \/ e.result # <<>>
           \/ e.type = "result" /\ e.sessionID # "" /\ e.status = ""
      [] d = "gemini" ->
           \/ e.type = "init" /\ e.sessionID # ""
           \/ e.role # ""
           \/ e.delta # "nil"
           \/ e.status # ""

\* The places in the order of the dialects whose rule the event satisfies.
Matching(e) == {i \in 1 .. Len(DialectOrder) : Satisfies(e, DialectOrder[i])}

\* What the handler of one dialect alone does with the event.
AloneEffect(d, l, e) ==
    CASE d = "opencode" -> HandleOpencode(l, e)
      [] d = "codex" -> HandleCodex(l, e)
      [] d = "claude" -> HandleClaude(l, e)
      [] d = "gemini" -> HandleGemini(l, e)

\* A step that reads an event has the effect of the handler of the earliest
\* dialect the event satisfies, and no effect if it satisfies none.
EarliestDialectOnly ==
    (ppc = "reading" /\ Len(stream') = Len(stream) + 1
        /\ stream'[Len(stream')].kind = "event") =>
      LET e == stream'[Len(stream')].ev
          m == Matching(e)
          expected == IF m = {} THEN Locals
                      ELSE AloneEffect(
                               DialectOrder[CHOOSE i \in m : \A k \in m : i <= k],
                               Locals, e)
      IN  /\ threadID' = expected.threadID
          /\ codexMessage' = expected.codexMessage
          /\ claudeMessage' = expected.claudeMessage
          /\ geminiBuffer' = expected.geminiBuffer
          /\ opencodeMessage' = expected.opencodeMessage
          /\ warnings' = expected.warnings
          /\ fired' = expected.fired

\* C37: each decoded event is handled by exactly one dialect handler, the
\* first that matches in the order opencode, codex, claude, gemini, or by
\* none: an event that satisfies the rules of several dialects has only the
\* earliest dialect's effect on the messages, the session ID and the
\* callbacks, and an event that matches no dialect changes none of them.
C37_OneDialectPerEvent == [][EarliestDialectOnly]_vars

\* An event that satisfies the rules of Claude and of Gemini was read: the
\* Claude message was replaced and the Gemini buffer is as it was.
C37_Witness ==
    /\ ppc = "reading"
    /\ Len(stream) > 0
    /\ LastLine.kind = "event"
    /\ Matching(LastLine.ev) = {3, 4}
    /\ LastLine.ev.content # <<>>
    /\ claudeMessage = LastLine.ev.result
    /\ geminiBuffer = <<>>
    /\ fired = <<"message", "complete">>

\* An event that satisfies no rule was read after a message, and nothing
\* was called.
UnknownEventIgnored ==
    /\ ppc = "reading"
    /\ Len(stream) > 1
    /\ LastLine.kind = "event"
    /\ Matching(LastLine.ev) = {}
    /\ claudeMessage # <<>>
    /\ fired = <<>>

(***************************************************************************)
(* C38: the agent-preset config is loaded once                             *)
(***************************************************************************)

\* One load at most since the start of the process or the last reset, and
\* every caller since then got the config that is cached.
LoadedOnce ==
    /\ loadCount <= resetCount + 1
    /\ Cardinality(seenConfigs) <= 1
    /\ seenConfigs \subseteq {modelsConfigCached}

\* The cached config changes only when the one load of a fresh Once stores
\* it or when the reset hook clears it: no caller changes it.
CacheReadOnly ==
    /\ loadCount' # loadCount =>
          (~modelsConfigOnce.done /\ loadCount' = loadCount + 1 /\ resetCount' = resetCount)
    /\ modelsConfigCached' # modelsConfigCached =>
          (loadCount' = loadCount + 1 \/ resetCount' = resetCount + 1)

\* C38: however many goroutines resolve presets concurrently, the models
\* config is loaded exactly once, every caller observes the same config,
\* and no resolve changes it afterwards; only the reset hook of the tests
\* makes the next call load it again.
C38_ModelsConfigLoadedOnce == []LoadedOnce /\ [][CacheReadOnly]_vars

\* Two goroutines are past Once.Do in their first calls at the same time,
\* the config was loaded once, and the file has changed since.
C38_Witness ==
    /\ \A g \in Resolvers : resolverPc[g] = "after" /\ callsMade[g] = 1
    /\ loadCount = 1
    /\ resetCount = 0
    /\ ~modelsConfigCached.isNil
    /\ modelsConfigCached.version # modelsFile

\* After a reset the next call loaded the config again, and callers got the
\* new one.
ReloadedAfterReset ==
    /\ resetCount = 1
    /\ loadCount = 2
    /\ seenConfigs = {ConfigPtr(FALSE, 1)}

(***************************************************************************)
(* C39: tailBuffer keeps the tail of what was written                      *)
(***************************************************************************)

\* C39: a tailBuffer with a limit L > 0 holds exactly the last
\* min(L, total) bytes of the concatenation of all the bytes written to it,
\* never more than L; every Write reports len(p) and a nil error; a buffer
\* with a limit L <= 0 retains nothing.
C39_TailBufferKeepsTail ==
    tailRet.len >= 0 =>
       /\ tailLimit > 0 =>
            LET total == Len(tailWritten)
                kept  == Smaller(tailLimit, total)
            IN  /\ Len(tailData) = kept
                /\ Len(tailData) <= tailLimit
                /\ \A i \in 1 .. kept : tailData[i] = tailWritten[total - kept + i]
       /\ tailLimit <= 0 => tailData = <<>>
       /\ tailRet.n = tailRet.len
       /\ tailRet.err = "nil"

\* More was written than the limit holds, in writes shorter than the limit,
\* the last of them onto a buffer that was not empty.
C39_Witness ==
    /\ tailLimit > 1
    /\ Len(tailWritten) > tailLimit
    /\ tailRet.len > 0
    /\ tailRet.len < tailLimit
    /\ Len(tailData) = tailLimit
    /\ tailData[1] # tailData[Len(tailData)]

\* Bytes were written to a buffer without a limit, and none is kept.
NothingRetained ==
    /\ tailLimit <= 0
    /\ tailRet.len > 0
    /\ Len(tailWritten) > 1
    /\ tailData = <<>>

(***************************************************************************)
(* C40: the active-logger handle                                           *)
(***************************************************************************)

\* No logger is closed twice through closeLogger, and the pointer is nil
\* whenever its last write was that of a closeLogger.
ClosedAtMostOnce ==
    /\ \A l \in LoggerIds : closeCalls[l] <= 1
    /\ lastPtrOp = "swap" => activePtr = 0

\* Some goroutine begins a call in this step.
Begins(t) == opsDone'[t] = opsDone[t] + 1

\* A call that begins while the pointer is nil, as it is once closeLogger
\* has taken the logger out and no setLogger followed: closeLogger returns
\* nil and closes nothing, a log helper logs nothing, and the step ends
\* the call.
NilHandleCalls ==
    \A t \in Threads :
       (Begins(t) /\ activePtr = 0 /\ installed' = installed) =>
          /\ closeCalls' = closeCalls
          /\ logCalls' = logCalls
          /\ handlePc'[t].in = "idle"
          /\ lastRet'.outcome \in {"nil", "no-op"}
          /\ activePtr' = 0

\* C40: for every interleaving of setLogger, closeLogger and the log
\* helpers, each installed logger is closed through closeLogger at most
\* once; once closeLogger has taken the logger out and no setLogger
\* follows, activeLogger gives nil, a further closeLogger returns nil
\* without closing anything, and the log helpers are no-ops.
C40_ActiveLoggerHandle == []ClosedAtMostOnce /\ [][NilHandleCalls]_vars

\* Two goroutines called closeLogger at the same time on one installed
\* logger: one closed it, the other returned nil, and a helper that came
\* later logged nothing.
C40_Witness ==
    /\ installed = 1
    /\ closeCalls[1] = 1
    /\ activePtr = 0
    /\ lastRet = CallDone("log", "no-op")
    /\ \A t \in Threads : opsDone[t] >= 2 /\ handlePc[t].in = "idle"
    /\ logCalls[1] = 0

====
